---- MODULE Spec2Model ----
(***************************************************************************)
(* gotenks: fused map/filter iterators.                                    *)
(*                                                                         *)
(* The model follows the non-leaking variant of the fused iterator         *)
(* (struct fused, struct object and the builder entry points) together     *)
(* with gotenks/node.h and gotenks/utils.h.  Host values are small         *)
(* integers, host callables are finite functions on them, and a host       *)
(* iterator is a position in a finite item list.                           *)
(***************************************************************************)
EXTENDS Integers, Sequences, FiniteSets, TLC

(***************************************************************************)
(* Bounds of the model.                                                    *)
(***************************************************************************)
MaxVal == 2
MaxLen == 2
MaxObjs == 3
MaxIters == 1
\* the objects and host iterators of the runs with two sources
TwoObjs == 2
TwoIters == 2
\* the longest argument tuple a builder is called with
MaxArgs == 3
\* the longest chain of map calls of the runs with the dispatcher
MaxChain == 11

(***************************************************************************)
(* Host values.                                                            *)
(***************************************************************************)
\* the ordinary host values drawn from a source
Values == 0 .. MaxVal
\* a host object whose truth value cannot be computed; arithmetic and
\* comparison on it give such an object again
Bad == MaxVal + 1
\* the null pointer returned for "error" and for "exhausted"
NULL == -1
\* a source item that makes the advance raise
SrcErr == -2
\* a source item that makes the advance report exhaustion although items
\* follow: a host iterator that resumes after StopIteration
SrcStop == -3

\* enum class node_kind
node_kind_map == 0
node_kind_filter == 1

(***************************************************************************)
(* Host callables.  A callable is a non-empty sequence of primitive        *)
(* functions applied first to last; a primitive the user passes is a       *)
(* sequence of length one.                                                 *)
(***************************************************************************)
\* the functions handed to fused.map and the predicates handed to fused.filter
MapFns == {"f", "g", "boom"}
Preds == {"p"}
\* the primitives that return a value with a truth value on every ordinary value
TotalPrims == {"f", "g", "p"}

\* f(a) = a + 1, g(a) = a * 2, p(a) = a > 1 on a wrapping value domain;
\* boom raises on 1 and returns the Bad object on 2
Prim(name, x) ==
    CASE name = "f" -> IF x = Bad THEN Bad ELSE (x + 1) % (MaxVal + 1)
      [] name = "g" -> IF x = Bad THEN Bad ELSE (2 * x) % (MaxVal + 1)
      [] name = "p" -> IF x = Bad THEN Bad ELSE IF x > 1 THEN 1 ELSE 0
      [] name = "boom" -> IF x = 1 THEN NULL ELSE IF x = 2 THEN Bad ELSE x

RECURSIVE call_function(_, _)
\* function(arg): the new owned value, or NULL when the callable raised
call_function(function, x) ==
    IF function = <<>> THEN x
    ELSE LET r == Prim(Head(function), x)
         IN IF r = NULL THEN NULL ELSE call_function(Tail(function), r)

\* gotenks.compose.compose(outer, inner): x -> outer(inner(x))
compose(outer, inner) == inner \o outer

\* PyObject_Not: 0 truthy, 1 falsy, -1 error
PyObject_Not(v) == IF v = Bad THEN -1 ELSE IF v = 0 THEN 1 ELSE 0

\* PyIter_Next on a host iterator at position pos of items
PyIter_Next(its, pos) ==
    IF pos > Len(its) THEN [val |-> NULL, pos |-> pos, err |-> "none"]
    ELSE IF its[pos] = SrcErr THEN [val |-> NULL, pos |-> pos + 1, err |-> "source"]
    ELSE IF its[pos] = SrcStop THEN [val |-> NULL, pos |-> pos + 1, err |-> "none"]
    ELSE [val |-> its[pos], pos |-> pos + 1, err |-> "none"]

(***************************************************************************)
(* Owned value handles of one call: h[k] is the k-th value the call        *)
(* obtained, with its reference count.                                     *)
(***************************************************************************)
NewRef(h, v) == Append(h, [val |-> v, rc |-> 1])
Py_DECREF(h, k) == [h EXCEPT ![k].rc = @ - 1]
Py_INCREF(h, k) == [h EXCEPT ![k].rc = @ + 1]

\* node(function, kind)
node(function, kind) == [function |-> function, kind |-> kind]

(***************************************************************************)
(* fused::interpreted_next                                                 *)
(***************************************************************************)
\* faulty variant of apply_failed: the element is not released
apply_failed_leaks(st) ==
    [st EXCEPT !.ctl = "null", !.err = "callable"]

\* `if (!applied) { Py_DECREF(element); return nullptr; }`
apply_failed(st) ==
    [st EXCEPT !.h = Py_DECREF(@, st.element), !.ctl = "null", !.err = "callable"]

\* faulty variant of map_label: the element is kept and the mapped value
\* is released
map_label_keeps_element(st, applied) ==
    [st EXCEPT !.h = Py_DECREF(@, applied), !.ctl = "continue"]

\* map_label: the mapped value replaces the element
map_label(st, applied) ==
    [st EXCEPT !.h = Py_DECREF(@, st.element), !.element = applied,
               !.ctl = "continue"]

\* faulty variant of filter_label: the predicate's result is not released
filter_label_leaks_result(st, applied) ==
    LET should_mask == PyObject_Not(st.h[applied].val)
    IN IF should_mask < 0
       THEN [st EXCEPT !.h = Py_DECREF(st.h, st.element), !.ctl = "null",
                       !.err = "truthiness"]
       ELSE IF should_mask = 1
       THEN [st EXCEPT !.h = Py_DECREF(st.h, st.element), !.ctl = "break",
                       !.filtered = TRUE]
       ELSE [st EXCEPT !.ctl = "continue", !.filtered = FALSE]

\* faulty variant of filter_label: a kept element is replaced by the
\* predicate's result
filter_label_hands_result_on(st, applied) ==
    LET should_mask == PyObject_Not(st.h[applied].val)
        h2 == Py_DECREF(st.h, applied)
    IN IF should_mask < 0
       THEN [st EXCEPT !.h = Py_DECREF(h2, st.element), !.ctl = "null",
                       !.err = "truthiness"]
       ELSE IF should_mask = 1
       THEN [st EXCEPT !.h = Py_DECREF(h2, st.element), !.ctl = "break",
                       !.filtered = TRUE]
       ELSE [st EXCEPT !.h = Py_DECREF(st.h, st.element), !.element = applied,
                       !.ctl = "continue", !.filtered = FALSE]

\* filter_label: test the predicate's result and keep or drop the element
filter_label(st, applied) ==
    LET should_mask == PyObject_Not(st.h[applied].val)
        h2 == Py_DECREF(st.h, applied)
    IN IF should_mask < 0
       THEN [st EXCEPT !.h = Py_DECREF(h2, st.element), !.ctl = "null",
                       !.err = "truthiness"]
       ELSE IF should_mask = 1
       THEN [st EXCEPT !.h = Py_DECREF(h2, st.element), !.ctl = "break",
                       !.filtered = TRUE]
       ELSE [st EXCEPT !.h = h2, !.ctl = "continue", !.filtered = FALSE]

\* `goto *labels[static_cast<std::size_t>(step.kind())]`
labels(kind, st, applied) ==
    IF kind = node_kind_map THEN map_label(st, applied) ELSE filter_label(st, applied)

RECURSIVE NextFor_retries_failed(_, _, _)
\* faulty variant of the for loop: a callable that raised is invoked once
\* more before the pull gives up
NextFor_retries_failed(steps, i, st) ==
    IF i > Len(steps) THEN [st EXCEPT !.ctl = "end"]
    ELSE
      LET step == steps[i]
          arg == st.h[st.element].val
          r == call_function(step.function, arg)
          c == [step |-> i, arg |-> arg, at |-> st.pos - 1]
          st1 == [st EXCEPT !.calls = IF r = NULL THEN Append(Append(@, c), c)
                                      ELSE Append(@, c)]
      IN IF r = NULL THEN apply_failed(st1)
         ELSE
           LET h1 == NewRef(st1.h, r)
               st2 == labels(step.kind, [st1 EXCEPT !.h = h1], Len(h1))
           IN IF st2.ctl = "continue" THEN NextFor_retries_failed(steps, i + 1, st2)
              ELSE st2

RECURSIVE NextFor_calls_again(_, _, _)
\* faulty variant of the for loop: a step whose callable returned is invoked
\* a second time on the same element
NextFor_calls_again(steps, i, st) ==
    IF i > Len(steps) THEN [st EXCEPT !.ctl = "end"]
    ELSE
      LET step == steps[i]
          arg == st.h[st.element].val
          r == call_function(step.function, arg)
          c == [step |-> i, arg |-> arg, at |-> st.pos - 1]
          st1 == [st EXCEPT !.calls = IF r = NULL THEN Append(@, c)
                                      ELSE Append(Append(@, c), c)]
      IN IF r = NULL THEN apply_failed(st1)
         ELSE
           LET h1 == NewRef(st1.h, r)
               st2 == labels(step.kind, [st1 EXCEPT !.h = h1], Len(h1))
           IN IF st2.ctl = "continue" THEN NextFor_calls_again(steps, i + 1, st2)
              ELSE st2

RECURSIVE NextFor(_, _, _)
\* `for (const node& step : m_steps)` from step i on; ctl tells how the loop
\* was left: "end" after the last step, "break", or "null" for return nullptr
NextFor(steps, i, st) ==
    IF i > Len(steps) THEN [st EXCEPT !.ctl = "end"]
    ELSE
      LET step == steps[i]
          arg == st.h[st.element].val
          r == call_function(step.function, arg)
          st1 == [st EXCEPT !.calls = Append(@, [step |-> i, arg |-> arg,
                                                 at |-> st.pos - 1])]
      IN IF r = NULL THEN apply_failed(st1)
         ELSE
           LET h1 == NewRef(st1.h, r)
               st2 == labels(step.kind, [st1 EXCEPT !.h = h1], Len(h1))
           IN IF st2.ctl = "continue" THEN NextFor(steps, i + 1, st2) ELSE st2

RECURSIVE NextWhile_asks_again(_, _, _)
\* faulty variant of the while loop: a source that returned NULL without an
\* error is asked once more before the pull returns
NextWhile_asks_again(steps, its, st) ==
    LET nx == PyIter_Next(its, st.pos)
    IN IF nx.val = NULL
       THEN IF nx.err = "none"
            THEN LET again == PyIter_Next(its, nx.pos)
                 IN [st EXCEPT !.pos = nx.pos, !.adv = @ + 2, !.err = again.err,
                               !.element = 0]
            ELSE [st EXCEPT !.pos = nx.pos, !.adv = @ + 1, !.err = nx.err,
                            !.element = 0]
       ELSE
         LET h1 == NewRef(st.h, nx.val)
             st1 == [st EXCEPT !.pos = nx.pos, !.adv = @ + 1, !.h = h1,
                               !.element = Len(h1)]
             st2 == NextFor(steps, 1, st1)
         IN IF st2.ctl = "null" THEN [st2 EXCEPT !.element = 0]
            ELSE IF ~st2.filtered THEN st2
            ELSE NextWhile_asks_again(steps, its, st2)

\* faulty variant of the while loop: the pull returns with no element when
\* a Filter drops the element, without drawing another
NextWhile_stops_at_drop(steps, its, st) ==
    LET nx == PyIter_Next(its, st.pos)
    IN IF nx.val = NULL
       THEN [st EXCEPT !.pos = nx.pos, !.adv = @ + 1, !.err = nx.err, !.element = 0]
       ELSE
         LET h1 == NewRef(st.h, nx.val)
             st1 == [st EXCEPT !.pos = nx.pos, !.adv = @ + 1, !.h = h1,
                               !.element = Len(h1)]
             st2 == NextFor(steps, 1, st1)
         IN IF st2.ctl = "null" THEN [st2 EXCEPT !.element = 0]
            ELSE IF ~st2.filtered THEN st2
            ELSE [st2 EXCEPT !.element = 0]

RECURSIVE NextWhile(_, _, _)
\* `while ((element = PyIter_Next(m_iter)))` and the return after it
NextWhile(steps, its, st) ==
    LET nx == PyIter_Next(its, st.pos)
    IN IF nx.val = NULL
       THEN [st EXCEPT !.pos = nx.pos, !.adv = @ + 1, !.err = nx.err, !.element = 0]
       ELSE
         LET h1 == NewRef(st.h, nx.val)
             st1 == [st EXCEPT !.pos = nx.pos, !.adv = @ + 1, !.h = h1,
                               !.element = Len(h1)]
             st2 == NextFor(steps, 1, st1)
         IN IF st2.ctl = "null" THEN [st2 EXCEPT !.element = 0]
            ELSE IF ~st2.filtered THEN st2
            ELSE NextWhile(steps, its, st2)

\* the locals of a call on a source at position pos
Locals(pos) ==
    [pos |-> pos, adv |-> 0, h |-> <<>>, element |-> 0, calls |-> <<>>,
     filtered |-> FALSE, ctl |-> "end", err |-> "none", out |-> <<>>, outrc |-> 0]

\* what the caller of a pull sees
Outcome(st) ==
    IF st.element # 0 THEN "value"
    ELSE IF st.err # "none" THEN "error"
    ELSE "exhausted"

Returned(st) == IF st.element # 0 THEN st.h[st.element].val ELSE NULL

interpreted_next(steps, its, pos) == NextWhile(steps, its, Locals(pos))

(***************************************************************************)
(* fused::interpreted_next of gotenks/fused.cc, the first variant of the   *)
(* file: its map_label assigns the mapped value without a Py_DECREF.       *)
(***************************************************************************)
\* map_label of the first variant: `element = applied; continue;`
first_map_label(st, applied) ==
    [st EXCEPT !.element = applied, !.ctl = "continue"]

\* `goto *labels[...]` of the first variant; its filter_label is the same
first_labels(kind, st, applied) ==
    IF kind = node_kind_map THEN first_map_label(st, applied)
    ELSE filter_label(st, applied)

RECURSIVE FirstNextFor(_, _, _)
\* `for (const node& step : m_steps)` of the first variant from step i on
FirstNextFor(steps, i, st) ==
    IF i > Len(steps) THEN [st EXCEPT !.ctl = "end"]
    ELSE
      LET step == steps[i]
          arg == st.h[st.element].val
          r == call_function(step.function, arg)
          st1 == [st EXCEPT !.calls = Append(@, [step |-> i, arg |-> arg,
                                                 at |-> st.pos - 1])]
      IN IF r = NULL THEN apply_failed(st1)
         ELSE
           LET h1 == NewRef(st1.h, r)
               st2 == first_labels(step.kind, [st1 EXCEPT !.h = h1], Len(h1))
           IN IF st2.ctl = "continue" THEN FirstNextFor(steps, i + 1, st2) ELSE st2

RECURSIVE FirstNextWhile(_, _, _)
\* `while ((element = PyIter_Next(m_iter)))` of the first variant and the
\* return after it
FirstNextWhile(steps, its, st) ==
    LET nx == PyIter_Next(its, st.pos)
    IN IF nx.val = NULL
       THEN [st EXCEPT !.pos = nx.pos, !.adv = @ + 1, !.err = nx.err, !.element = 0]
       ELSE
         LET h1 == NewRef(st.h, nx.val)
             st1 == [st EXCEPT !.pos = nx.pos, !.adv = @ + 1, !.h = h1,
                               !.element = Len(h1)]
             st2 == FirstNextFor(steps, 1, st1)
         IN IF st2.ctl = "null" THEN [st2 EXCEPT !.element = 0]
            ELSE IF ~st2.filtered THEN st2
            ELSE FirstNextWhile(steps, its, st2)

\* fused::interpreted_next of the first variant
first_interpreted_next(steps, its, pos) == FirstNextWhile(steps, its, Locals(pos))

(***************************************************************************)
(* fused::interpreted_to_list                                              *)
(***************************************************************************)
RECURSIVE DecrefAll(_, _)
\* list deallocation releases the reference the list holds on each item
DecrefAll(h, out) ==
    IF out = <<>> THEN h ELSE DecrefAll(Py_DECREF(h, Head(out)), Tail(out))

\* Py_DECREF(out) on the only reference to the list
DecrefOut(st) == [st EXCEPT !.outrc = 0, !.h = DecrefAll(@, st.out)]

\* PyList_Append(out, element): the list takes its own reference
PyList_Append(st) ==
    [st EXCEPT !.h = Py_INCREF(@, st.element), !.out = Append(@, st.element)]

RECURSIVE ToListWhile_rewinds_on_error(_, _, _)
\* faulty variant of the to_list loop: when a step fails the source is left
\* where it was before the failing element was drawn
ToListWhile_rewinds_on_error(steps, its, st) ==
    LET nx == PyIter_Next(its, st.pos)
    IN IF nx.val = NULL
       THEN [st EXCEPT !.pos = nx.pos, !.adv = @ + 1, !.err = nx.err, !.element = 0]
       ELSE
         LET h1 == NewRef(st.h, nx.val)
             st1 == [st EXCEPT !.pos = nx.pos, !.adv = @ + 1, !.h = h1,
                               !.element = Len(h1)]
             st2 == NextFor(steps, 1, st1)
         IN IF st2.ctl = "null"
            THEN DecrefOut([st2 EXCEPT !.element = 0, !.pos = st.pos])
            ELSE IF ~st2.filtered
            THEN ToListWhile_rewinds_on_error(steps, its, PyList_Append(st2))
            ELSE ToListWhile_rewinds_on_error(steps, its, st2)

RECURSIVE ToListWhile_appends_dropped(_, _, _)
\* faulty variant of the to_list loop: an element is appended whether or not
\* a filter dropped it
ToListWhile_appends_dropped(steps, its, st) ==
    LET nx == PyIter_Next(its, st.pos)
    IN IF nx.val = NULL
       THEN [st EXCEPT !.pos = nx.pos, !.adv = @ + 1, !.err = nx.err, !.element = 0]
       ELSE
         LET h1 == NewRef(st.h, nx.val)
             st1 == [st EXCEPT !.pos = nx.pos, !.adv = @ + 1, !.h = h1,
                               !.element = Len(h1)]
             st2 == NextFor(steps, 1, st1)
         IN IF st2.ctl = "null" THEN DecrefOut([st2 EXCEPT !.element = 0])
            ELSE ToListWhile_appends_dropped(steps, its, PyList_Append(st2))

RECURSIVE ToListWhile(_, _, _)
\* `while ((element = PyIter_Next(m_iter)))` of interpreted_to_list and the
\* return after it
ToListWhile(steps, its, st) ==
    LET nx == PyIter_Next(its, st.pos)
    IN IF nx.val = NULL
       THEN [st EXCEPT !.pos = nx.pos, !.adv = @ + 1, !.err = nx.err, !.element = 0]
       ELSE
         LET h1 == NewRef(st.h, nx.val)
             st1 == [st EXCEPT !.pos = nx.pos, !.adv = @ + 1, !.h = h1,
                               !.element = Len(h1)]
             st2 == NextFor(steps, 1, st1)
         IN IF st2.ctl = "null" THEN DecrefOut([st2 EXCEPT !.element = 0])
            ELSE IF ~st2.filtered THEN ToListWhile(steps, its, PyList_Append(st2))
            ELSE ToListWhile(steps, its, st2)

\* PyList_New(0) followed by the loop
interpreted_to_list(steps, its, pos) ==
    ToListWhile(steps, its, [Locals(pos) EXCEPT !.outrc = 1])

\* the values of the list a to_list call built
ListValues(st) == [k \in 1 .. Len(st.out) |-> st.h[st.out[k]].val]

(***************************************************************************)
(* jit::compile: the blocks of the function `next` it emits, and their     *)
(* execution.  A block is named by a pair: its gccjit name and the number  *)
(* of the step it was made for (0 for the blocks made once).               *)
(***************************************************************************)
get_next_element == <<"next_element", 0>>
return_null == <<"return_null", 0>>
have_element == <<"have_element", 0>>
decref_element_return == <<"decref_element_return", 0>>
\* handle_steps[n - 1], the block step n hands the element to
handle_step(n) == <<"handle_step", n>>
\* current_block when the loop reaches step n
current_block(n) == IF n = 1 THEN have_element ELSE handle_step(n - 1)

\* a statement and a block terminator
Stmt(op, n) == [op |-> op, n |-> n]
End(op, a, b, c) == [op |-> op, a |-> a, b |-> b, c |-> c]
Block(stmts, end) == [stmts |-> stmts, end |-> end]

\* current_block.add_assignment(applied, call_function(functions[n], element))
\* and the conditional on applied == null
apply_block(n) ==
    Block(<<Stmt("applied = call_function", n)>>,
          End("conditional applied == null",
              decref_element_return, <<"after_applied", n>>, return_null))

\* faulty variant of after_applied: the default target of a Filter's switch
\* is return_null, so the element is kept when the truth test fails
after_applied_error_keeps_element(kind, n) ==
    IF kind = node_kind_map
    THEN Block(<<Stmt("py_decref(element)", n), Stmt("element = applied", n)>>,
               End("jump", handle_step(n), return_null, return_null))
    ELSE Block(<<Stmt("should_mask = pyobject_not(applied)", n),
                 Stmt("py_decref(applied)", n)>>,
               End("switch should_mask",
                   handle_step(n), <<"decref_get_next", n>>, return_null))

\* faulty variant of after_applied: the element a filter drops is not
\* released before the next one is drawn
after_applied_keeps_dropped(kind, n) ==
    IF kind = node_kind_map
    THEN Block(<<Stmt("py_decref(element)", n), Stmt("element = applied", n)>>,
               End("jump", handle_step(n), return_null, return_null))
    ELSE Block(<<Stmt("should_mask = pyobject_not(applied)", n),
                 Stmt("py_decref(applied)", n)>>,
               End("switch should_mask",
                   handle_step(n), get_next_element, decref_element_return))

\* the after_applied block of a step: `switch (step.kind())`
after_applied(kind, n) ==
    IF kind = node_kind_map
    THEN Block(<<Stmt("py_decref(element)", n), Stmt("element = applied", n)>>,
               End("jump", handle_step(n), return_null, return_null))
    ELSE Block(<<Stmt("should_mask = pyobject_not(applied)", n),
                 Stmt("py_decref(applied)", n)>>,
               End("switch should_mask",
                   handle_step(n), <<"decref_get_next", n>>, decref_element_return))

\* the names of the blocks made for m_steps
BlockNames(m_steps) ==
    {get_next_element, return_null, have_element, decref_element_return}
        \cup {<<nm, n>> : nm \in {"handle_step", "after_applied", "decref_get_next"},
                          n \in 1 .. Len(m_steps)}

\* jit::compile(steps): the blocks of `next`; a block that belongs to step
\* n + 1 gets its statements when the loop reaches that step, the block left
\* as current_block after the loop returns element
jit_compile(m_steps) ==
    LET N == Len(m_steps)
        StepBlock(n) == IF n > N
                        THEN Block(<<>>, End("return element",
                                             return_null, return_null, return_null))
                        ELSE apply_block(n)
    IN [b \in BlockNames(m_steps) |->
          CASE b = get_next_element ->
                 Block(<<Stmt("element = pyiter_next(iter)", 0)>>,
                       End("conditional element == null",
                           return_null, have_element, return_null))
            [] b = return_null ->
                 Block(<<>>, End("return null", return_null, return_null, return_null))
            [] b = decref_element_return ->
                 Block(<<Stmt("py_decref(element)", 0)>>,
                       End("return null", return_null, return_null, return_null))
            [] b = have_element -> StepBlock(1)
            [] b[1] = "handle_step" -> StepBlock(b[2] + 1)
            [] b[1] = "after_applied" -> after_applied(m_steps[b[2]].kind, b[2])
            [] b[1] = "decref_get_next" ->
                 Block(<<Stmt("py_decref(element)", b[2])>>,
                       End("jump", get_next_element, return_null, return_null))]

\* next_function's constructor: m_functions holds step.function() of each step
m_functions(m_steps) == [n \in 1 .. Len(m_steps) |-> m_steps[n].function]

\* the frame of `next`: the locals of a pull with the registers applied and
\* should_mask and the returned pointer
Frame(pos) ==
    [pos |-> pos, adv |-> 0, h |-> <<>>, element |-> 0, calls |-> <<>>,
     err |-> "none", applied |-> 0, should_mask |-> 0, ret |-> 0]

\* one statement of a block
ExecStmt(s, functions, its, fr) ==
    CASE s.op = "element = pyiter_next(iter)" ->
           LET nx == PyIter_Next(its, fr.pos)
               h1 == NewRef(fr.h, nx.val)
           IN IF nx.val = NULL
              THEN [fr EXCEPT !.pos = nx.pos, !.adv = @ + 1, !.err = nx.err,
                              !.element = 0]
              ELSE [fr EXCEPT !.pos = nx.pos, !.adv = @ + 1, !.h = h1,
                              !.element = Len(h1)]
      [] s.op = "applied = call_function" ->
           LET arg == fr.h[fr.element].val
               r == call_function(functions[s.n], arg)
               h1 == NewRef(fr.h, r)
               fr1 == [fr EXCEPT !.calls = Append(@, [step |-> s.n, arg |-> arg,
                                                      at |-> fr.pos - 1])]
           IN IF r = NULL THEN [fr1 EXCEPT !.applied = 0, !.err = "callable"]
              ELSE [fr1 EXCEPT !.h = h1, !.applied = Len(h1)]
      [] s.op = "py_decref(element)" -> [fr EXCEPT !.h = Py_DECREF(@, fr.element)]
      [] s.op = "py_decref(applied)" -> [fr EXCEPT !.h = Py_DECREF(@, fr.applied)]
      [] s.op = "element = applied" -> [fr EXCEPT !.element = fr.applied]
      [] s.op = "should_mask = pyobject_not(applied)" ->
           LET m == PyObject_Not(fr.h[fr.applied].val)
           IN [fr EXCEPT !.should_mask = m,
                         !.err = IF m < 0 THEN "truthiness" ELSE @]

RECURSIVE ExecStmts(_, _, _, _)
ExecStmts(stmts, functions, its, fr) ==
    IF stmts = <<>> THEN fr
    ELSE ExecStmts(Tail(stmts), functions, its,
                   ExecStmt(Head(stmts), functions, its, fr))

RECURSIVE RunBlock(_, _, _, _, _)
\* run the emitted function from block b until it returns
RunBlock(blocks, functions, its, b, fr) ==
    LET fr1 == ExecStmts(blocks[b].stmts, functions, its, fr)
        end == blocks[b].end
    IN CASE end.op = "return null" -> [fr1 EXCEPT !.ret = 0]
         [] end.op = "return element" -> [fr1 EXCEPT !.ret = fr1.element]
         [] end.op = "jump" -> RunBlock(blocks, functions, its, end.a, fr1)
         [] end.op = "conditional element == null" ->
              RunBlock(blocks, functions, its,
                       IF fr1.element = 0 THEN end.a ELSE end.b, fr1)
         [] end.op = "conditional applied == null" ->
              RunBlock(blocks, functions, its,
                       IF fr1.applied = 0 THEN end.a ELSE end.b, fr1)
         [] end.op = "switch should_mask" ->
              RunBlock(blocks, functions, its,
                       IF fr1.should_mask = 0 THEN end.a
                       ELSE IF fr1.should_mask = 1 THEN end.b ELSE end.c, fr1)

\* next_function::operator(): m_lifted_function(m_functions.data(), size, iter)
\* for the function compiled from m_steps
lifted_next(m_steps, its, pos) ==
    RunBlock(jit_compile(m_steps), m_functions(m_steps), its, get_next_element,
             Frame(pos))

VARIABLES
    items,   \* the item list every host iterator walks
    iters,   \* iters[s]: the position of host iterator s
    objs,    \* objs[o]: the fused iterator object o
    pyerr,   \* the host error indicator when the last call returned
    last,    \* the last call on the module and what it returned
    heap,    \* the references the extension holds on host objects and the
             \* native code results it owns
    nodes,   \* nodes[s]: the node object in storage s
    fns      \* fns[s]: the next_function object in storage s

vars == <<items, iters, objs, pyerr, last, heap, nodes, fns>>

NoCall ==
    [op |-> "none", nargs |-> 0, obj |-> 0, tail |-> 0, kind |-> 0,
     function |-> <<>>,
     composed |-> "no", pre |-> 0, errored |-> FALSE, exhausted |-> FALSE,
     res |-> "none",
     val |-> NULL, list |-> <<>>, pairs |-> <<>>, st |-> Locals(0),
     via |-> "none", hint |-> NULL, compiled |-> "no"]

\* nothing held: fn counts the references held on each callable, it those on
\* each host iterator, res the native code results owned and not released
NoRefs == [fn |-> <<>>, it |-> <<>>, res |-> <<>>]

ItemLists == [1 .. MaxLen -> Values \cup {SrcErr, SrcStop}]

Init ==
    /\ items \in ItemLists
    /\ iters = <<>>
    /\ objs = <<>>
    /\ pyerr = "none"
    /\ last = NoCall
    /\ heap = NoRefs
    /\ nodes = <<>>
    /\ fns = <<>>

(***************************************************************************)
(* fused::fused                                                            *)
(***************************************************************************)
\* faulty variant of fused_over: the pipeline is left without a step
fused_over_no_step(function, kind, iter) ==
    [m_steps |-> <<>>, m_iter |-> iter]

\* fused(function, kind, iter): one step over a host iterator
fused_over(function, kind, iter) ==
    [m_steps |-> <<node(function, kind)>>, m_iter |-> iter]

\* faulty variant of CallsCompose: the kind of the tail's last step is
\* not looked at
CallsCompose_ignores_last_kind(kind, tail) ==
    kind = node_kind_map

\* faulty variant of CallsCompose: a Filter added to a Filter is composed too
CallsCompose_same_kind(kind, tail) ==
    kind = tail.m_steps[Len(tail.m_steps)].kind

\* whether the extension constructor calls compose
CallsCompose(kind, tail) ==
    kind = node_kind_map /\ tail.m_steps[Len(tail.m_steps)].kind = node_kind_map

\* faulty variant of the extension constructor: compose is called with its
\* arguments exchanged
fused_extend_swapped(function, kind, tail, composeOk) ==
    LET m_steps == tail.m_steps
        n == Len(m_steps)
        lastnode == m_steps[n]
    IN IF CallsCompose(kind, tail) /\ composeOk
       THEN [m_steps |-> [m_steps EXCEPT ![n].function = compose(lastnode.function, function)],
             m_iter |-> tail.m_iter]
       ELSE [m_steps |-> Append(m_steps, node(function, kind)),
             m_iter |-> tail.m_iter]

\* faulty variant of the extension constructor: nothing is appended when
\* compose fails
fused_extend_gives_up(function, kind, tail, composeOk) ==
    LET m_steps == tail.m_steps
        n == Len(m_steps)
        lastnode == m_steps[n]
    IN IF CallsCompose(kind, tail)
       THEN IF composeOk
            THEN [m_steps |-> [m_steps EXCEPT ![n].function = compose(function, lastnode.function)],
                  m_iter |-> tail.m_iter]
            ELSE [m_steps |-> m_steps, m_iter |-> tail.m_iter]
       ELSE [m_steps |-> Append(m_steps, node(function, kind)),
             m_iter |-> tail.m_iter]

\* faulty variant of the extension constructor: the new node is appended
\* also after a successful compose
fused_extend_appends(function, kind, tail, composeOk) ==
    LET m_steps == tail.m_steps
        n == Len(m_steps)
        lastnode == m_steps[n]
    IN IF CallsCompose(kind, tail) /\ composeOk
       THEN [m_steps |-> Append([m_steps EXCEPT ![n].function = compose(function, lastnode.function)],
                                node(function, kind)),
             m_iter |-> tail.m_iter]
       ELSE [m_steps |-> Append(m_steps, node(function, kind)),
             m_iter |-> tail.m_iter]

\* fused(function, kind, tail, compose): add a step to an existing fused
\* iterator; composeOk is whether the call to compose returns a callable
fused_extend(function, kind, tail, composeOk) ==
    LET m_steps == tail.m_steps
        n == Len(m_steps)
        lastnode == m_steps[n]
    IN IF CallsCompose(kind, tail) /\ composeOk
       THEN [m_steps |-> [m_steps EXCEPT ![n].function = compose(function, lastnode.function)],
             m_iter |-> tail.m_iter]
       ELSE [m_steps |-> Append(m_steps, node(function, kind)),
             m_iter |-> tail.m_iter]

\* PyErr_Clear
PyErr_Clear(e) == "none"

\* faulty variant of ExtendErr: the exception of a failed compose is left set
ExtendErr_not_cleared(kind, tail, composeOk) ==
    IF CallsCompose(kind, tail) /\ ~composeOk THEN "compose" ELSE "none"

\* the error indicator when the extension constructor returns
ExtendErr(kind, tail, composeOk) ==
    IF CallsCompose(kind, tail) /\ ~composeOk THEN PyErr_Clear("compose") ELSE "none"

(***************************************************************************)
(* new_fused<kind>(compose, function, tail)                                *)
(***************************************************************************)
\* next_function(): no code and no pinned callables
next_function_default == [m_gcc_jit_result |-> <<>>, m_functions |-> <<>>]

\* next_function(result, steps): the code compiled from steps, named by those
\* steps, and the callables it pins
next_function(m_steps) ==
    [m_gcc_jit_result |-> m_steps, m_functions |-> m_functions(m_steps)]

\* struct object: the boxed fused iterator.  built is the sequence of builder
\* calls (innermost first) that produced it, each with what became of its
\* call to compose; m_next and m_compiled_next are the fields of the build
\* with GOTENKS_JIT as new_fused sets them
object(m_fused, built) ==
    [m_steps |-> m_fused.m_steps, m_iter |-> m_fused.m_iter, built |-> built,
     m_next |-> "first_next", m_compiled_next |-> next_function_default]

\* one builder call as remembered in built
call(function, kind, composed) ==
    [function |-> function, kind |-> kind, composed |-> composed]

\* faulty variant of PyObject_GetIter: the first host iterator is returned
\* again
PyObject_GetIter_same(its) == 1

\* PyObject_GetIter on an iterable: the new host iterator, at its first item
PyObject_GetIter(its) == Len(its) + 1

\* tail is not a fused iterator: PyObject_GetIter gives a new host iterator
new_fused_over(kind, name, nargs) ==
    /\ iters' = Append(iters, 1)
    /\ objs' = Append(objs, object(fused_over(<<name>>, kind, PyObject_GetIter(iters)),
                                    <<call(<<name>>, kind, "no")>>))
    /\ pyerr' = "none"
    /\ last' = [NoCall EXCEPT !.op = "new", !.nargs = nargs, !.obj = Len(objs) + 1,
                              !.kind = kind, !.function = <<name>>,
                              !.res = "object"]
    /\ UNCHANGED <<items, heap, nodes, fns, heap, nodes, fns>>

\* faulty variant of placement_new: the new fused is given the tail's vector
\* itself, so what the constructor does to its steps is done to the tail's
placement_new_shares_steps(os, t, ob) ==
    Append([os EXCEPT ![t].m_steps = ob.m_steps], ob)

\* PyObject_New and the placement new of a fused whose constructor worked on
\* a copy of the tail's vector: object t is left as it was
placement_new(os, t, ob) == Append(os, ob)

\* tail is the fused iterator t
new_fused_extend(kind, name, t, composeOk, nargs) ==
    LET composed == IF ~CallsCompose(kind, objs[t]) THEN "no"
                    ELSE IF composeOk THEN "ok" ELSE "failed"
    IN /\ composeOk \/ CallsCompose(kind, objs[t])
       /\ objs' = placement_new(objs, t,
                                 object(fused_extend(<<name>>, kind, objs[t], composeOk),
                                        Append(objs[t].built,
                                               call(<<name>>, kind, composed))))
       /\ pyerr' = ExtendErr(kind, objs[t], composeOk)
       /\ last' = [NoCall EXCEPT !.op = "extend", !.nargs = nargs,
                                 !.obj = Len(objs) + 1, !.tail = t,
                                 !.kind = kind, !.function = <<name>>,
                                 !.composed = composed, !.res = "object"]
       /\ UNCHANGED <<items, iters, heap, nodes, fns>>

\* the builder calls while there is room for another object and host iterator;
\* nargs is the size of the argument tuple the call came with
NewFusedOver(kind, name, nargs) ==
    Len(objs) < MaxObjs /\ Len(iters) < MaxIters /\ new_fused_over(kind, name, nargs)

NewFusedExtend(kind, name, t, composeOk, nargs) ==
    Len(objs) < MaxObjs /\ new_fused_extend(kind, name, t, composeOk, nargs)

\* faulty variant of wrong_size: only too few arguments are refused
wrong_size_too_few(nargs) == nargs < 2

\* `PyTuple_Size(args) != 2`
wrong_size(nargs) == nargs # 2

\* PyErr_Format(PyExc_TypeError, ...) and return nullptr
expects_2_arguments(kind, nargs) ==
    /\ pyerr' = "TypeError"
    /\ last' = [NoCall EXCEPT !.op = "refused", !.nargs = nargs, !.kind = kind,
                              !.res = "error"]
    /\ UNCHANGED <<items, iters, objs, heap, nodes, fns>>

\* fused.map(*args): with two arguments, map(function, iterable)
map ==
    \E nargs \in 0 .. MaxArgs :
        IF wrong_size(nargs) THEN expects_2_arguments(node_kind_map, nargs)
        ELSE \E name \in MapFns :
                 \/ NewFusedOver(node_kind_map, name, nargs)
                 \/ \E t \in 1 .. Len(objs), composeOk \in BOOLEAN :
                        NewFusedExtend(node_kind_map, name, t, composeOk, nargs)

\* fused.filter(*args): with two arguments, filter(predicate, iterable)
filter ==
    \E nargs \in 0 .. MaxArgs :
        IF wrong_size(nargs) THEN expects_2_arguments(node_kind_filter, nargs)
        ELSE \E name \in Preds :
                 \/ NewFusedOver(node_kind_filter, name, nargs)
                 \/ \E t \in 1 .. Len(objs) :
                        NewFusedExtend(node_kind_filter, name, t, TRUE, nargs)

(***************************************************************************)
(* methods::iternext and methods::to_list                                  *)
(***************************************************************************)
\* whether the calls on the module since a pull on o returned an error have
\* all been pulls on o
AfterError(o) ==
    last.op = "next" /\ last.obj = o /\ (last.res = "error" \/ last.errored)

\* whether the calls on the module since a pull on o returned exhausted have
\* all been pulls on o
AfterExhausted(o) ==
    last.op = "next" /\ last.obj = o /\ (last.res = "exhausted" \/ last.exhausted)

\* faulty variant of tp_iternext: an iterator that has returned an error
\* returns the error again without drawing from the source
tp_iternext_sticky(self) ==
    IF \E o \in 1 .. Len(objs) : objs[o] = self /\ AfterError(o)
    THEN [Locals(iters[self.m_iter]) EXCEPT !.err = "callable"]
    ELSE interpreted_next(self.m_steps, items, iters[self.m_iter])

\* faulty variant of tp_iternext: an iterator that has returned exhausted
\* returns exhausted again without drawing from the source
tp_iternext_stays_exhausted(self) ==
    IF \E o \in 1 .. Len(objs) : objs[o] = self /\ AfterExhausted(o) THEN Locals(iters[self.m_iter])
    ELSE interpreted_next(self.m_steps, items, iters[self.m_iter])

\* the pull the type's tp_iternext slot performs on self
tp_iternext(self) == interpreted_next(self.m_steps, items, iters[self.m_iter])

iternext ==
    \E o \in 1 .. Len(objs) :
        LET self == objs[o]
            st == tp_iternext(self)
        IN /\ iters' = [iters EXCEPT ![self.m_iter] = st.pos]
           /\ objs' = objs
           /\ pyerr' = st.err
           /\ last' = [NoCall EXCEPT !.op = "next", !.obj = o,
                                     !.pre = iters[self.m_iter],
                                     !.errored = AfterError(o),
                                     !.exhausted = AfterExhausted(o),
                                     !.res = Outcome(st), !.val = Returned(st),
                                     !.st = st]
           /\ UNCHANGED <<items, heap, nodes, fns, heap, nodes, fns>>

to_list ==
    \E o \in 1 .. Len(objs) :
        LET self == objs[o]
            st == interpreted_to_list(self.m_steps, items, iters[self.m_iter])
        IN /\ iters' = [iters EXCEPT ![self.m_iter] = st.pos]
           /\ pyerr' = st.err
           /\ last' = [NoCall EXCEPT !.op = "to_list", !.obj = o,
                                     !.pre = iters[self.m_iter],
                                     !.errored = AfterError(o),
                                     !.exhausted = AfterExhausted(o),
                                     !.res = IF st.outrc = 0 THEN "error" ELSE "list",
                                     !.list = ListValues(st), !.st = st]
           /\ UNCHANGED <<items, objs, heap, nodes, fns>>

(***************************************************************************)
(* methods::steps                                                          *)
(***************************************************************************)
\* faulty variant of names: the two strings in the other order
names_exchanged == <<"filter", "map">>

\* `PyObject* names[] = {map_string, filter_string}`
names == <<"map", "filter">>

\* PyTuple_Pack(2, name, step.function()) with name = names[step.kind()]
step_object(step) == <<names[step.kind + 1], step.function>>

\* the list methods::steps fills by PyList_SET_ITEM(steps, ix++, step_object)
steps_list(m_steps) == [ix \in 1 .. Len(m_steps) |-> step_object(m_steps[ix])]

methods_steps ==
    \E o \in 1 .. Len(objs) :
        /\ pyerr' = "none"
        /\ last' = [NoCall EXCEPT !.op = "steps", !.obj = o,
                                  !.pre = iters[objs[o].m_iter], !.res = "list",
                                  !.pairs = steps_list(objs[o].m_steps)]
        /\ UNCHANGED <<items, iters, objs, heap, nodes, fns>>

Next == map \/ filter \/ iternext \/ to_list \/ methods_steps

Spec == Init /\ [][Next]_vars

\* the builder calls and the pull alone, over the same objects: the chains
\* of three steps and what tp_iternext gives on them
NextChain == map \/ filter \/ iternext

SpecChain == Init /\ [][NextChain]_vars

(***************************************************************************)
(* The same module over up to TwoIters iterables and TwoObjs objects.      *)
(***************************************************************************)
map_two ==
    \E nargs \in 0 .. MaxArgs :
        IF wrong_size(nargs) THEN expects_2_arguments(node_kind_map, nargs)
        ELSE \E name \in MapFns :
                 /\ Len(objs) < TwoObjs
                 /\ \/ /\ Len(iters) < TwoIters
                       /\ new_fused_over(node_kind_map, name, nargs)
                    \/ \E t \in 1 .. Len(objs), composeOk \in BOOLEAN :
                           new_fused_extend(node_kind_map, name, t, composeOk, nargs)

filter_two ==
    \E nargs \in 0 .. MaxArgs :
        IF wrong_size(nargs) THEN expects_2_arguments(node_kind_filter, nargs)
        ELSE \E name \in Preds :
                 /\ Len(objs) < TwoObjs
                 /\ \/ /\ Len(iters) < TwoIters
                       /\ new_fused_over(node_kind_filter, name, nargs)
                    \/ \E t \in 1 .. Len(objs) :
                           new_fused_extend(node_kind_filter, name, t, TRUE, nargs)

NextTwo == map_two \/ filter_two \/ iternext \/ to_list \/ methods_steps

SpecTwo == Init /\ [][NextTwo]_vars

(***************************************************************************)
(* The module built from gotenks/fused.cc, the first variant: the same     *)
(* builder calls, and methods::iternext runs its interpreted_next.         *)
(***************************************************************************)
iternext_first ==
    \E o \in 1 .. Len(objs) :
        LET self == objs[o]
            st == first_interpreted_next(self.m_steps, items, iters[self.m_iter])
        IN /\ iters' = [iters EXCEPT ![self.m_iter] = st.pos]
           /\ pyerr' = st.err
           /\ last' = [NoCall EXCEPT !.op = "next", !.obj = o,
                                     !.pre = iters[self.m_iter],
                                     !.errored = AfterError(o),
                                     !.exhausted = AfterExhausted(o),
                                     !.res = Outcome(st), !.val = Returned(st),
                                     !.st = st, !.via = "first variant"]
           /\ UNCHANGED <<items, objs, heap, nodes, fns>>

NextFirst == map_two \/ filter_two \/ iternext_first

SpecFirst == Init /\ [][NextFirst]_vars

(***************************************************************************)
(* The build with GOTENKS_JIT: methods::iternext calls self->m_next(self). *)
(***************************************************************************)
compile_threshold_steps == 10
compile_threshold_size == 50000000

\* the values PyObject_LengthHint(iter, 0) returns
Hints ==
    {0, compile_threshold_size - 1, compile_threshold_size,
     2 * compile_threshold_size}

\* the locals of a pull as the compiled function leaves them
FrameAsLocals(fr) ==
    [Locals(fr.pos) EXCEPT !.adv = fr.adv, !.h = fr.h, !.element = fr.ret,
                           !.calls = fr.calls, !.err = fr.err]

\* compiled_next(self): self->m_compiled_next(self->m_fused.iter())
compiled_next(self, its, pos) ==
    RunBlock(jit_compile(self.m_compiled_next.m_gcc_jit_result),
             self.m_compiled_next.m_functions, its, get_next_element, Frame(pos))

\* whether first_next gets as far as PyObject_LengthHint
AsksHint(self) ==
    self.m_next = "first_next" /\ ~(Len(self.m_steps) < compile_threshold_steps)

\* whether first_next gets as far as self->m_fused.compile()
Compiles(self, hint) == AsksHint(self) /\ ~(hint < compile_threshold_size)

\* what a call through m_next leaves: the two fields of self it may assign
\* and the locals of the pull
Dispatched(m_next, m_compiled_next, st, compiled) ==
    [m_next |-> m_next, m_compiled_next |-> m_compiled_next, st |-> st,
     compiled |-> compiled]

\* faulty variant of first_next: m_next is set to compiled_next before the
\* result of the compilation is tested
first_next_installs_unchecked(self, hint, compileOk, its, pos) ==
    IF Len(self.m_steps) < compile_threshold_steps \/ hint < compile_threshold_size
    THEN Dispatched("interpreted_next", self.m_compiled_next,
                    interpreted_next(self.m_steps, its, pos), "no")
    ELSE IF ~compileOk
    THEN Dispatched("compiled_next", self.m_compiled_next,
                    [Locals(pos) EXCEPT !.err = "ValueError"], "failed")
    ELSE LET moved == [self EXCEPT !.m_compiled_next = next_function(self.m_steps)]
         IN Dispatched("compiled_next", moved.m_compiled_next,
                       FrameAsLocals(compiled_next(moved, its, pos)), "ok")

\* faulty variant of first_next: the thresholds themselves still select the
\* interpreter
first_next_threshold_excluded(self, hint, compileOk, its, pos) ==
    IF Len(self.m_steps) <= compile_threshold_steps \/ hint <= compile_threshold_size
    THEN Dispatched("interpreted_next", self.m_compiled_next,
                    interpreted_next(self.m_steps, its, pos), "no")
    ELSE IF ~compileOk
    THEN Dispatched(self.m_next, self.m_compiled_next,
                    [Locals(pos) EXCEPT !.err = "ValueError"], "failed")
    ELSE LET moved == [self EXCEPT !.m_compiled_next = next_function(self.m_steps)]
         IN Dispatched("compiled_next", moved.m_compiled_next,
                       FrameAsLocals(compiled_next(moved, its, pos)), "ok")

\* faulty variant of first_next: after a successful compilation m_next is
\* left as it was
first_next_keeps_m_next(self, hint, compileOk, its, pos) ==
    IF Len(self.m_steps) < compile_threshold_steps \/ hint < compile_threshold_size
    THEN Dispatched("interpreted_next", self.m_compiled_next,
                    interpreted_next(self.m_steps, its, pos), "no")
    ELSE IF ~compileOk
    THEN Dispatched(self.m_next, self.m_compiled_next,
                    [Locals(pos) EXCEPT !.err = "ValueError"], "failed")
    ELSE LET moved == [self EXCEPT !.m_compiled_next = next_function(self.m_steps)]
         IN Dispatched(self.m_next, moved.m_compiled_next,
                       FrameAsLocals(compiled_next(moved, its, pos)), "ok")

\* first_next(self); hint is what PyObject_LengthHint returns and compileOk
\* whether gccjit compiles the function
first_next(self, hint, compileOk, its, pos) ==
    IF Len(self.m_steps) < compile_threshold_steps \/ hint < compile_threshold_size
    THEN Dispatched("interpreted_next", self.m_compiled_next,
                    interpreted_next(self.m_steps, its, pos), "no")
    ELSE IF ~compileOk
    THEN Dispatched(self.m_next, self.m_compiled_next,
                    [Locals(pos) EXCEPT !.err = "ValueError"], "failed")
    ELSE LET moved == [self EXCEPT !.m_compiled_next = next_function(self.m_steps)]
         IN Dispatched("compiled_next", moved.m_compiled_next,
                       FrameAsLocals(compiled_next(moved, its, pos)), "ok")

\* faulty variant of m_next: a pull through interpreted_next puts first_next
\* back
m_next_decides_again(self, hint, compileOk, its, pos) ==
    CASE self.m_next = "first_next" -> first_next(self, hint, compileOk, its, pos)
      [] self.m_next = "interpreted_next" ->
           Dispatched("first_next", self.m_compiled_next,
                      interpreted_next(self.m_steps, its, pos), "no")
      [] self.m_next = "compiled_next" ->
           Dispatched(self.m_next, self.m_compiled_next,
                      FrameAsLocals(compiled_next(self, its, pos)), "no")

\* self->m_next(self)
m_next(self, hint, compileOk, its, pos) ==
    CASE self.m_next = "first_next" -> first_next(self, hint, compileOk, its, pos)
      [] self.m_next = "interpreted_next" ->
           Dispatched(self.m_next, self.m_compiled_next,
                      interpreted_next(self.m_steps, its, pos), "no")
      [] self.m_next = "compiled_next" ->
           Dispatched(self.m_next, self.m_compiled_next,
                      FrameAsLocals(compiled_next(self, its, pos)), "no")

\* methods::iternext on the outermost iterator; the hint and the outcome of
\* the compilation are inputs of the calls that ask for them
iternext_jit ==
    \E hint \in Hints \cup {NULL}, compileOk \in BOOLEAN :
        LET o == Len(objs)
            self == objs[o]
            d == m_next(self, hint, compileOk, items, iters[self.m_iter])
        IN /\ objs # <<>>
           /\ hint # NULL <=> AsksHint(self)
           /\ ~compileOk => Compiles(self, hint)
           /\ iters' = [iters EXCEPT ![self.m_iter] = d.st.pos]
           /\ objs' = [objs EXCEPT ![o].m_next = d.m_next,
                                   ![o].m_compiled_next = d.m_compiled_next]
           /\ pyerr' = d.st.err
           /\ last' = [NoCall EXCEPT !.op = "next", !.obj = o,
                                     !.pre = iters[self.m_iter],
                                     !.errored = AfterError(o),
                                     !.exhausted = AfterExhausted(o),
                                     !.res = Outcome(d.st), !.val = Returned(d.st),
                                     !.st = d.st, !.via = self.m_next,
                                     !.hint = hint, !.compiled = d.compiled]
           /\ UNCHANGED <<items, heap, nodes, fns, heap, nodes, fns>>

\* fused.map(f, iterable): the innermost call of a chained expression
map_first ==
    objs = <<>> /\ new_fused_over(node_kind_map, "f", 2)

\* fused.map(f, <fused iterator>) in a chained expression: the tail is a
\* temporary that is deallocated when the call has returned, and compose
\* fails for this call if it failed for the calls before
map_chained ==
    \E composeOk \in BOOLEAN :
        LET tail == objs[1]
            n == Len(tail.built)
            composed == IF composeOk THEN "ok" ELSE "failed"
        IN /\ Len(objs) = 1
           /\ n < MaxChain
           /\ n > 1 => tail.built[n].composed = composed
           /\ objs' = <<object(fused_extend(<<"f">>, node_kind_map, tail, composeOk),
                               Append(tail.built,
                                      call(<<"f">>, node_kind_map, composed)))>>
           /\ pyerr' = ExtendErr(node_kind_map, tail, composeOk)
           /\ last' = [NoCall EXCEPT !.op = "extend", !.nargs = 2, !.obj = 1,
                                     !.kind = node_kind_map, !.function = <<"f">>,
                                     !.composed = composed, !.res = "object"]
           /\ UNCHANGED <<items, iters, heap, nodes, fns>>

NextJit == map_first \/ map_chained \/ iternext_jit

SpecJit == Init /\ [][NextJit]_vars

(***************************************************************************)
(* References held on host objects.  A count map gives, for each host      *)
(* object the extension has touched, the references the extension holds on *)
(* it: Py_INCREF and Py_DECREF above act on such a map as they act on the  *)
(* handles of a call.  Host objects that are equal as values are counted   *)
(* together.                                                               *)
(***************************************************************************)
\* the map h with an entry for object k
Known(h, k) == IF k \in DOMAIN h THEN h ELSE h @@ (k :> [rc |-> 0])

\* the references held on k
Held(h, k) == IF k \in DOMAIN h THEN h[k].rc ELSE 0

\* Py_XDECREF(op): nothing for a null pointer
Py_XDECREF(h, k) == IF k = <<>> THEN h ELSE Py_DECREF(h, k)

(***************************************************************************)
(* class node (gotenks/node.h): what each special member does to the       *)
(* references held on callables.  A null m_function is the empty sequence. *)
(***************************************************************************)
\* node(function, kind): Py_INCREF(function)
node_ctor(h, function) == Py_INCREF(Known(h, function), function)

\* node(const node& cpfrom): Py_INCREF(m_function)
node_copy_ctor(h, cpfrom) == Py_INCREF(h, cpfrom.function)

\* node(node&& mvfrom): the pointer is taken over, no count changes
node_move_ctor(h, mvfrom) == h

\* operator=(const node& cpfrom): m_function is overwritten and the new
\* value is given a reference
node_copy_assign(h, self, cpfrom) == Py_INCREF(h, cpfrom.function)

\* operator=(node&& mvfrom): m_function is overwritten, no count changes
node_move_assign(h, self, mvfrom) == h

\* ~node(): Py_XDECREF(m_function)
node_dtor(h, self) == Py_XDECREF(h, self.function)

\* function(new_function): Py_XDECREF(m_function); Py_INCREF(new_function)
node_function(h, self, new_function) ==
    Py_INCREF(Known(Py_XDECREF(h, self.function), new_function), new_function)

\* a node whose m_function a move has set to nullptr
moved_from(self) == [self EXCEPT !.function = <<>>]

(***************************************************************************)
(* The special members of node applied in any order to the nodes in up to  *)
(* MaxNodes storages.  A copy from a node whose m_function is null is not  *)
(* taken: Py_INCREF would dereference the null pointer.                    *)
(***************************************************************************)
MaxNodes == 3
\* no more references are taken on a callable than this
MaxHeld == 4

\* the callables the nodes are built from
NodeFns == {<<"f">>, <<"p">>}

InitNode ==
    /\ items = <<>>
    /\ iters = <<>>
    /\ objs = <<>>
    /\ pyerr = "none"
    /\ last = NoCall
    /\ heap = NoRefs
    /\ nodes = <<>>
    /\ fns = <<>>

\* what the node actions leave alone
NodeFrame == UNCHANGED <<items, iters, objs, pyerr, fns>>

FreeNode(s) == s \in (1 .. MaxNodes) \ DOMAIN nodes

\* new (s) node(function, kind)
node_construct ==
    \E s \in 1 .. MaxNodes, function \in NodeFns,
       kind \in {node_kind_map, node_kind_filter} :
        /\ FreeNode(s)
        /\ Held(heap.fn, function) < MaxHeld
        /\ nodes' = nodes @@ (s :> node(function, kind))
        /\ heap' = [heap EXCEPT !.fn = node_ctor(@, function)]
        /\ last' = [NoCall EXCEPT !.op = "node", !.obj = s, !.kind = kind,
                                  !.function = function]
        /\ NodeFrame

\* new (s) node(nodes[t])
node_copy_construct ==
    \E s \in 1 .. MaxNodes, t \in DOMAIN nodes :
        /\ FreeNode(s)
        /\ nodes[t].function # <<>>
        /\ Held(heap.fn, nodes[t].function) < MaxHeld
        /\ nodes' = nodes @@ (s :> nodes[t])
        /\ heap' = [heap EXCEPT !.fn = node_copy_ctor(@, nodes[t])]
        /\ last' = [NoCall EXCEPT !.op = "node copy", !.obj = s, !.tail = t,
                                  !.function = nodes[t].function]
        /\ NodeFrame

\* new (s) node(std::move(nodes[t]))
node_move_construct ==
    \E s \in 1 .. MaxNodes, t \in DOMAIN nodes :
        /\ FreeNode(s)
        /\ nodes' = [nodes EXCEPT ![t] = moved_from(@)] @@ (s :> nodes[t])
        /\ heap' = [heap EXCEPT !.fn = node_move_ctor(@, nodes[t])]
        /\ last' = [NoCall EXCEPT !.op = "node move", !.obj = s, !.tail = t,
                                  !.function = nodes[t].function]
        /\ NodeFrame

\* nodes[s] = nodes[t]
node_operator_copy ==
    \E s \in DOMAIN nodes, t \in DOMAIN nodes :
        /\ nodes[t].function # <<>>
        /\ Held(heap.fn, nodes[t].function) < MaxHeld
        /\ nodes' = [nodes EXCEPT ![s] = nodes[t]]
        /\ heap' = [heap EXCEPT !.fn = node_copy_assign(@, nodes[s], nodes[t])]
        /\ last' = [NoCall EXCEPT !.op = "operator= copy", !.obj = s, !.tail = t,
                                  !.function = nodes[s].function]
        /\ NodeFrame

\* nodes[s] = std::move(nodes[t]); with s = t the node is left with a null
\* m_function
node_operator_move ==
    \E s \in DOMAIN nodes, t \in DOMAIN nodes :
        /\ nodes' = [[nodes EXCEPT ![s] = nodes[t]] EXCEPT ![t] = moved_from(@)]
        /\ heap' = [heap EXCEPT !.fn = node_move_assign(@, nodes[s], nodes[t])]
        /\ last' = [NoCall EXCEPT !.op = "operator= move", !.obj = s, !.tail = t,
                                  !.function = nodes[s].function]
        /\ NodeFrame

\* nodes[s].function(new_function)
node_set_function ==
    \E s \in DOMAIN nodes, new_function \in NodeFns :
        /\ Held(heap.fn, new_function) < MaxHeld
        /\ nodes' = [nodes EXCEPT ![s].function = new_function]
        /\ heap' = [heap EXCEPT !.fn = node_function(@, nodes[s], new_function)]
        /\ last' = [NoCall EXCEPT !.op = "function", !.obj = s,
                                  !.function = nodes[s].function]
        /\ NodeFrame

\* nodes[s].~node()
node_destroy ==
    \E s \in DOMAIN nodes :
        /\ nodes' = [t \in DOMAIN nodes \ {s} |-> nodes[t]]
        /\ heap' = [heap EXCEPT !.fn = node_dtor(@, nodes[s])]
        /\ last' = [NoCall EXCEPT !.op = "~node", !.obj = s,
                                  !.function = nodes[s].function]
        /\ NodeFrame

NextNode ==
    \/ node_construct
    \/ node_copy_construct
    \/ node_move_construct
    \/ node_operator_copy
    \/ node_operator_move
    \/ node_set_function
    \/ node_destroy

SpecNode == InitNode /\ [][NextNode]_vars

(***************************************************************************)
(* class next_function: what each special member does to the references    *)
(* held on the pinned callables and to the native code results owned.  A   *)
(* native code result is named by the steps it was compiled from; a null   *)
(* m_gcc_jit_result is the empty sequence.                                 *)
(***************************************************************************)
RECURSIVE IncrefEach(_, _)
\* Py_INCREF(ob) for each ob of obs, in order
IncrefEach(h, obs) ==
    IF obs = <<>> THEN h
    ELSE IncrefEach(Py_INCREF(Known(h, Head(obs)), Head(obs)), Tail(obs))

RECURSIVE DecrefEach(_, _)
\* Py_DECREF(ob) for each ob of obs, in order
DecrefEach(h, obs) ==
    IF obs = <<>> THEN h ELSE DecrefEach(Py_DECREF(h, Head(obs)), Tail(obs))

\* ctx.compile(): a new native code result, owned by the caller
gcc_jit_context_compile(hp, m_steps) ==
    [hp EXCEPT !.res = Py_INCREF(Known(@, m_steps), m_steps)]

\* faulty variant of next_function_ctor: the callables are stored without a
\* reference being taken
next_function_ctor_borrows(hp, m_steps) == hp

\* next_function(result, steps): a reference is taken on the callable of
\* every step
next_function_ctor(hp, m_steps) ==
    [hp EXCEPT !.fn = IncrefEach(@, m_functions(m_steps))]

\* ~next_function(): nothing without a result; else
\* gcc_jit_result_release and Py_DECREF of every pinned callable
next_function_dtor(hp, self) ==
    IF self.m_gcc_jit_result = <<>> THEN hp
    ELSE [hp EXCEPT !.res = Py_DECREF(@, self.m_gcc_jit_result),
                    !.fn = DecrefEach(@, self.m_functions)]

\* the source of a move: m_gcc_jit_result = nullptr, m_functions moved out
next_function_moved_from(mvfrom) ==
    [mvfrom EXCEPT !.m_gcc_jit_result = <<>>, !.m_functions = <<>>]

(***************************************************************************)
(* The special members of next_function applied in any order to the        *)
(* objects in up to MaxFns storages; jit::compile is what constructs a     *)
(* next_function with a result.                                            *)
(***************************************************************************)
MaxFns == 3

\* the pipelines compiled, each at most once: the results are distinct
CompiledSteps ==
    {<<node(<<"f">>, node_kind_map)>>,
     <<node(<<"f">>, node_kind_map), node(<<"p">>, node_kind_filter)>>}

\* what the next_function actions leave alone
FnFrame == UNCHANGED <<items, iters, objs, pyerr, nodes>>

FreeFn(s) == s \in (1 .. MaxFns) \ DOMAIN fns

\* new (s) next_function()
fn_default_construct ==
    \E s \in 1 .. MaxFns :
        /\ FreeFn(s)
        /\ fns' = fns @@ (s :> next_function_default)
        /\ heap' = heap
        /\ last' = [NoCall EXCEPT !.op = "next_function()", !.obj = s]
        /\ FnFrame

\* new (s) next_function(result, steps) with result = ctx.compile()
fn_compile_construct ==
    \E s \in 1 .. MaxFns, m_steps \in CompiledSteps :
        /\ FreeFn(s)
        /\ m_steps \notin DOMAIN heap.res
        /\ fns' = fns @@ (s :> next_function(m_steps))
        /\ heap' = next_function_ctor(gcc_jit_context_compile(heap, m_steps), m_steps)
        /\ last' = [NoCall EXCEPT !.op = "next_function(result, steps)", !.obj = s]
        /\ FnFrame

\* new (s) next_function(std::move(fns[t]))
fn_move_construct ==
    \E s \in 1 .. MaxFns, t \in DOMAIN fns :
        /\ FreeFn(s)
        /\ fns' = [fns EXCEPT ![t] = next_function_moved_from(@)] @@ (s :> fns[t])
        /\ heap' = heap
        /\ last' = [NoCall EXCEPT !.op = "next_function move", !.obj = s, !.tail = t]
        /\ FnFrame

\* fns[s] = std::move(fns[t]); pairs remembers what fns[s] held
fn_operator_move ==
    \E s \in DOMAIN fns, t \in DOMAIN fns :
        /\ fns' = [[fns EXCEPT ![s] = fns[t]] EXCEPT ![t] = next_function_moved_from(@)]
        /\ heap' = heap
        /\ last' = [NoCall EXCEPT !.op = "next_function operator=", !.obj = s,
                                  !.tail = t,
                                  !.pairs = fns[s].m_gcc_jit_result]
        /\ FnFrame

\* fns[s].~next_function(); pairs remembers what fns[s] held
fn_destroy ==
    \E s \in DOMAIN fns :
        /\ fns' = [t \in DOMAIN fns \ {s} |-> fns[t]]
        /\ heap' = next_function_dtor(heap, fns[s])
        /\ last' = [NoCall EXCEPT !.op = "~next_function", !.obj = s,
                                  !.pairs = fns[s].m_gcc_jit_result]
        /\ FnFrame

NextFn ==
    \/ fn_default_construct
    \/ fn_compile_construct
    \/ fn_move_construct
    \/ fn_operator_move
    \/ fn_destroy

SpecFn == InitNode /\ [][NextFn]_vars

(***************************************************************************)
(* The life of a public iterator in the build with GOTENKS_JIT: the        *)
(* references new_fused, the constructors of fused, first_next and         *)
(* methods::deallocate take and release.                                   *)
(***************************************************************************)
\* fused(function, kind, iter): `m_steps({node(function, kind)})` builds a
\* node, copies it into the vector and destroys it; then Py_INCREF(iter)
fused_over_refs(hp, function, kind, iter) ==
    LET n == node(function, kind)
    IN [hp EXCEPT !.fn = node_dtor(node_copy_ctor(node_ctor(@, function), n), n),
                  !.it = Py_INCREF(@, iter)]

\* fused(function, kind, tail, compose): `m_steps(tail.m_steps)` copies every
\* node, Py_INCREF(m_iter); then either the composed callable, new and
\* owned, is set on the last node and released, or a node is emplaced
fused_extend_refs(hp, function, kind, tail, composeOk) ==
    LET copied == [hp EXCEPT !.fn = IncrefEach(@, m_functions(tail.m_steps)),
                             !.it = Py_INCREF(@, tail.m_iter)]
        lastnode == tail.m_steps[Len(tail.m_steps)]
        composed == compose(function, lastnode.function)
    IN IF CallsCompose(kind, tail) /\ composeOk
       THEN [copied EXCEPT !.fn =
                Py_DECREF(node_function(Py_INCREF(Known(@, composed), composed),
                                        lastnode, composed),
                          composed)]
       ELSE [copied EXCEPT !.fn = node_ctor(@, function)]

\* ~fused(): Py_DECREF(m_iter), then the vector destroys every node
fused_dtor(hp, self) ==
    [hp EXCEPT !.it = Py_DECREF(@, self.m_iter),
               !.fn = DecrefEach(@, m_functions(self.m_steps))]

\* methods::deallocate: self->m_fused.~fused(); PyObject_Del(self)
deallocate(hp, self) == fused_dtor(hp, self)

\* faulty variant of new_fused_over_refs: the reference PyObject_GetIter
\* returned is not released
new_fused_over_refs_keeps_iter(hp, function, kind, iter) ==
    fused_over_refs([hp EXCEPT !.it = Py_INCREF(Known(@, iter), iter)],
                    function, kind, iter)

\* new_fused over a host iterable: PyObject_GetIter returns a new reference,
\* the constructor takes its own, Py_DECREF(iter)
new_fused_over_refs(hp, function, kind, iter) ==
    LET got == [hp EXCEPT !.it = Py_INCREF(Known(@, iter), iter)]
        built == fused_over_refs(got, function, kind, iter)
    IN [built EXCEPT !.it = Py_DECREF(@, iter)]

\* first_next after a successful compilation: the result of ctx.compile(),
\* next_function(result, steps), the moves into the optional and into
\* m_compiled_next, and the destructors of the objects moved from
compile_refs(hp, self) ==
    LET made == next_function(self.m_steps)
        pinned == next_function_ctor(gcc_jit_context_compile(hp, self.m_steps),
                                     self.m_steps)
        temporary == next_function_dtor(pinned, next_function_moved_from(made))
    IN next_function_dtor(temporary, next_function_moved_from(made))

\* one item list is enough for the references: the pulls only have to run
InitLife ==
    /\ items = <<1, 2>>
    /\ iters = <<>>
    /\ objs = <<>>
    /\ pyerr = "none"
    /\ last = NoCall
    /\ heap = NoRefs
    /\ nodes = <<>>
    /\ fns = <<>>

\* fused.map(f, iterable) or fused.filter(p, iterable) on an iterable whose
\* PyObject_GetIter succeeds or raises
life_new ==
    \E getIterOk \in BOOLEAN,
       b \in {<<node_kind_map, "f">>, <<node_kind_filter, "p">>} :
        LET kind == b[1]
            function == <<b[2]>>
            iter == PyObject_GetIter(iters)
        IN /\ objs = <<>>
           /\ iters = <<>>
           /\ IF getIterOk
              THEN /\ iters' = Append(iters, 1)
                   /\ objs' = <<object(fused_over(function, kind, iter),
                                       <<call(function, kind, "no")>>)>>
                   /\ heap' = new_fused_over_refs(heap, function, kind, iter)
                   /\ pyerr' = "none"
                   /\ last' = [NoCall EXCEPT !.op = "new", !.nargs = 2, !.obj = 1,
                                             !.kind = kind, !.function = function,
                                             !.res = "object"]
              ELSE /\ pyerr' = "not iterable"
                   /\ last' = [NoCall EXCEPT !.op = "new", !.nargs = 2,
                                             !.kind = kind, !.function = function,
                                             !.res = "error"]
                   /\ UNCHANGED <<iters, objs, heap>>
           /\ UNCHANGED <<items, nodes, fns>>

\* a builder call on the fused iterator in a chained expression: the tail is
\* a temporary that is deallocated when the call has returned.  The chain
\* goes on as it began: maps that compose, maps whose compose fails, or a
\* step of the other kind each time
life_chained ==
    \E composeOk \in BOOLEAN,
       b \in {<<node_kind_map, "f">>, <<node_kind_filter, "p">>} :
        LET kind == b[1]
            function == <<b[2]>>
            tail == objs[1]
            n == Len(tail.built)
            composed == IF ~CallsCompose(kind, tail) THEN "no"
                        ELSE IF composeOk THEN "ok" ELSE "failed"
        IN /\ Len(objs) = 1
           /\ n < MaxChain
           /\ composeOk \/ CallsCompose(kind, tail)
           /\ ~CallsCompose(kind, tail) => kind # tail.m_steps[Len(tail.m_steps)].kind
           /\ n > 1 => tail.built[n].composed = composed
           /\ objs' = <<object(fused_extend(function, kind, tail, composeOk),
                               Append(tail.built, call(function, kind, composed)))>>
           /\ heap' = deallocate(fused_extend_refs(heap, function, kind, tail,
                                                   composeOk), tail)
           /\ pyerr' = ExtendErr(kind, tail, composeOk)
           /\ last' = [NoCall EXCEPT !.op = "extend", !.nargs = 2, !.obj = 1,
                                     !.kind = kind, !.function = function,
                                     !.composed = composed, !.res = "object"]
           /\ UNCHANGED <<items, iters, nodes, fns>>

\* methods::iternext: self->m_next(self)
life_iternext ==
    \E hint \in Hints \cup {NULL}, compileOk \in BOOLEAN :
        LET self == objs[1]
            d == m_next(self, hint, compileOk, items, iters[self.m_iter])
        IN /\ Len(objs) = 1
           /\ hint # NULL <=> AsksHint(self)
           /\ ~compileOk => Compiles(self, hint)
           /\ iters' = [iters EXCEPT ![self.m_iter] = d.st.pos]
           /\ objs' = [objs EXCEPT ![1].m_next = d.m_next,
                                   ![1].m_compiled_next = d.m_compiled_next]
           /\ heap' = IF d.compiled = "ok" THEN compile_refs(heap, self) ELSE heap
           /\ pyerr' = d.st.err
           /\ last' = [NoCall EXCEPT !.op = "next", !.obj = 1,
                                     !.pre = iters[self.m_iter],
                                     !.errored = AfterError(1),
                                     !.exhausted = AfterExhausted(1),
                                     !.res = Outcome(d.st), !.val = Returned(d.st),
                                     !.st = d.st, !.via = self.m_next,
                                     !.hint = hint, !.compiled = d.compiled]
           /\ UNCHANGED <<items, nodes, fns>>

\* the host releases the last reference to the iterator
life_deallocate ==
    /\ Len(objs) = 1
    /\ objs' = <<>>
    /\ heap' = deallocate(heap, objs[1])
    /\ pyerr' = "none"
    /\ last' = [NoCall EXCEPT !.op = "deallocate", !.obj = 1,
                              !.via = objs[1].m_next]
    /\ UNCHANGED <<items, iters, nodes, fns>>

NextLife == life_new \/ life_chained \/ life_iternext \/ life_deallocate

SpecLife == InitLife /\ [][NextLife]_vars

\* every call of the module over that one item list: what a call leaves of
\* the pipelines already built does not depend on the items pulled
SpecFrame == InitLife /\ [][Next]_vars

(***************************************************************************)
(* Pulls whose callables pull.  The callable again1 (again2) calls next()  *)
(* on fused iterator 1 (2) and then returns its argument; it raises when   *)
(* that pull raised or when the iterator does not exist.  A pull is        *)
(* computed on a world w: the positions of the host iterators, for each    *)
(* fused iterator the step a pull on it started last, and the log of the   *)
(* step calls, each with the depth of the pull that made it.               *)
(***************************************************************************)
Again == {"again1", "again2"}
AgainTarget(name) == IF name = "again1" THEN 1 ELSE 2

\* the callables handed to fused.map in these runs
ReMapFns == {"f"} \cup Again

World(its) == [iters |-> its, cursor |-> [o \in 1 .. Len(objs) |-> 0], log |-> <<>>]

\* faulty variant of next_step: the position in m_steps is kept in the
\* iterator, where a pull made by the callable moves it
next_step_shared(i, cursor) == cursor + 1

\* `for (const node& step : m_steps)`: the position in m_steps is a local of
\* the call
next_step(i, cursor) == i + 1

RECURSIVE ReCall(_, _, _, _)
RECURSIVE ReFor(_, _, _, _, _, _)
RECURSIVE ReWhile(_, _, _)

\* function(arg) for a callable that may pull
ReCall(function, x, w, d) ==
    IF function = <<>> THEN [w |-> w, val |-> x, err |-> "none"]
    ELSE
      LET name == Head(function)
      IN IF name \in Again
         THEN IF AgainTarget(name) > Len(objs)
              THEN [w |-> w, val |-> NULL, err |-> "callable"]
              ELSE LET nested == ReWhile(AgainTarget(name), w, d + 1)
                   IN IF nested.err # "none"
                      THEN [w |-> nested.w, val |-> NULL, err |-> nested.err]
                      ELSE ReCall(Tail(function), x, nested.w, d)
         ELSE LET r == Prim(name, x)
              IN IF r = NULL THEN [w |-> w, val |-> NULL, err |-> "callable"]
                 ELSE ReCall(Tail(function), r, w, d)

\* the for loop of interpreted_next on iterator o from step i on, with the
\* element drawn at position at
ReFor(o, i, element, at, w, d) ==
    LET m_steps == objs[o].m_steps
    IN IF i > Len(m_steps)
       THEN [w |-> w, ctl |-> "end", element |-> element, err |-> "none"]
       ELSE
         LET step == m_steps[i]
             w0 == [w EXCEPT !.cursor[o] = i,
                             !.log = Append(@, [d |-> d, o |-> o, step |-> i,
                                                arg |-> element, at |-> at])]
             applied == ReCall(step.function, element, w0, d)
             w1 == applied.w
         IN IF applied.val = NULL
            THEN [w |-> w1, ctl |-> "null", element |-> NULL, err |-> applied.err]
            ELSE IF step.kind = node_kind_map
            THEN ReFor(o, next_step(i, w1.cursor[o]), applied.val, at, w1, d)
            ELSE LET should_mask == PyObject_Not(applied.val)
                 IN IF should_mask < 0
                    THEN [w |-> w1, ctl |-> "null", element |-> NULL,
                          err |-> "truthiness"]
                    ELSE IF should_mask = 1
                    THEN [w |-> w1, ctl |-> "break", element |-> NULL,
                          err |-> "none"]
                    ELSE ReFor(o, next_step(i, w1.cursor[o]), element, at, w1, d)

\* interpreted_next on iterator o at depth d
ReWhile(o, w, d) ==
    LET m_iter == objs[o].m_iter
        nx == PyIter_Next(items, w.iters[m_iter])
        w1 == [w EXCEPT !.iters[m_iter] = nx.pos]
    IN IF nx.val = NULL THEN [w |-> w1, val |-> NULL, err |-> nx.err]
       ELSE LET r == ReFor(o, 1, nx.val, nx.pos - 1, w1, d)
            IN IF r.ctl = "null" THEN [w |-> r.w, val |-> NULL, err |-> r.err]
               ELSE IF r.ctl = "break" THEN ReWhile(o, r.w, d)
               ELSE [w |-> r.w, val |-> r.element, err |-> "none"]

\* the builder calls with callables that may pull
new_reentrant ==
    \E b \in ({node_kind_map} \X ReMapFns) \cup {<<node_kind_filter, "p">>} :
        /\ Len(objs) < TwoObjs
        /\ \/ Len(iters) < TwoIters /\ new_fused_over(b[1], b[2], 2)
           \/ \E t \in 1 .. Len(objs), composeOk \in BOOLEAN :
                  new_fused_extend(b[1], b[2], t, composeOk, 2)

\* methods::iternext on iterator o; pairs is the log of the step calls
iternext_reentrant ==
    \E o \in 1 .. Len(objs) :
        LET r == ReWhile(o, World(iters), 0)
        IN /\ iters' = r.w.iters
           /\ objs' = objs
           /\ pyerr' = r.err
           /\ last' = [NoCall EXCEPT !.op = "next", !.obj = o,
                                     !.pre = iters[objs[o].m_iter],
                                     !.res = IF r.val # NULL THEN "value"
                                             ELSE IF r.err # "none" THEN "error"
                                             ELSE "exhausted",
                                     !.val = r.val, !.pairs = r.w.log,
                                     !.via = "reentrant"]
           /\ UNCHANGED <<items, heap, nodes, fns>>

NextReentrant == new_reentrant \/ iternext_reentrant

SpecReentrant == Init /\ [][NextReentrant]_vars

(***************************************************************************)
(* Reference semantics used by the properties.                             *)
(***************************************************************************)
\* every callable of the builder calls returns an ordinary value on every
\* ordinary value
NonFailing(built) ==
    \A k \in 1 .. Len(built) :
        \A j \in 1 .. Len(built[k].function) : built[k].function[j] \in TotalPrims

RECURSIVE NaiveNext(_, _, _, _)
\* next() on the nested builtin iterators map(.., filter(.., ..)) of the
\* first k builder calls, for callables that do not fail
NaiveNext(built, k, its, pos) ==
    IF k = 0
    THEN IF pos > Len(its) THEN [res |-> "exhausted", val |-> NULL, pos |-> pos]
         ELSE IF its[pos] = SrcErr THEN [res |-> "error", val |-> NULL, pos |-> pos + 1]
         ELSE IF its[pos] = SrcStop
         THEN [res |-> "exhausted", val |-> NULL, pos |-> pos + 1]
         ELSE [res |-> "value", val |-> its[pos], pos |-> pos + 1]
    ELSE LET inner == NaiveNext(built, k - 1, its, pos)
             y == Prim(built[k].function[1], inner.val)
         IN IF inner.res # "value" THEN inner
            ELSE IF built[k].kind = node_kind_map THEN [inner EXCEPT !.val = y]
            ELSE IF y # 0 THEN inner
            ELSE NaiveNext(built, k, its, inner.pos)

RECURSIVE NaiveAll(_, _, _)
\* the values the nested builtin iterators yield until the first pull that
\* yields none, and how that pull ended
NaiveAll(built, its, pos) ==
    LET r == NaiveNext(built, Len(built), its, pos)
    IN IF r.res # "value" THEN [vals |-> <<>>, end |-> r.res, pos |-> r.pos]
       ELSE LET more == NaiveAll(built, its, r.pos)
            IN [more EXCEPT !.vals = <<r.val>> \o @]

RECURSIVE RepeatedNext(_, _, _)
\* the values repeated interpreted_next calls return until the first call
\* that returns none, and how that call ended
RepeatedNext(steps, its, pos) ==
    LET st == interpreted_next(steps, its, pos)
    IN IF Outcome(st) # "value"
       THEN [vals |-> <<>>, end |-> Outcome(st), pos |-> st.pos]
       ELSE LET more == RepeatedNext(steps, its, st.pos)
            IN [more EXCEPT !.vals = <<Returned(st)>> \o @]

\* the position of the host iterator object o draws from
PosOf(o) == iters[objs[o].m_iter]

\* C1: for every chain of builder calls with callables that do not fail, each
\* pull returns what next() on the naive nested iterators returns, and the
\* values of repeated pulls until exhaustion are those of the nested iterators,
\* in the same order
C1_SemanticEquivalence ==
    /\ \A o \in 1 .. Len(objs) :
           NonFailing(objs[o].built) =>
               RepeatedNext(objs[o].m_steps, items, PosOf(o))
                   = NaiveAll(objs[o].built, items, PosOf(o))
    /\ (last.op = "next" /\ NonFailing(objs[last.obj].built)) =>
           LET r == NaiveNext(objs[last.obj].built, Len(objs[last.obj].built),
                              items, last.pre)
           IN /\ last.res = r.res
              /\ last.val = r.val
              /\ PosOf(last.obj) = r.pos

\* a pull on a three-call chain with both kinds that dropped an element and
\* then returned one
C1_Witness ==
    /\ last.op = "next"
    /\ last.res = "value"
    /\ last.st.adv >= 2
    /\ NonFailing(objs[last.obj].built)
    /\ Len(objs[last.obj].built) = 3
    /\ \E i, j \in 1 .. 3 : /\ objs[last.obj].built[i].kind = node_kind_map
                            /\ objs[last.obj].built[j].kind = node_kind_filter

RECURSIVE Replay(_, _, _)
\* the steps the extension constructor gives for the first k builder calls
\* when every call to compose has the outcome composeOk
Replay(built, k, composeOk) ==
    IF k = 1 THEN fused_over(built[1].function, built[1].kind, 1)
    ELSE fused_extend(built[k].function, built[k].kind,
                      Replay(built, k - 1, composeOk), composeOk)

\* C2: the values pulled from a pipeline, and the way the pulls end, are
\* the same whether every compose call of its builder calls succeeds, every
\* one fails, or they are mixed as they were when the pipeline was built
C2_FusionTransparency ==
    \A o \in 1 .. Len(objs) :
        LET built == objs[o].built
            fusedSteps == Replay(built, Len(built), TRUE).m_steps
            unfusedSteps == Replay(built, Len(built), FALSE).m_steps
        IN /\ RepeatedNext(objs[o].m_steps, items, PosOf(o))
                  = RepeatedNext(unfusedSteps, items, PosOf(o))
           /\ RepeatedNext(fusedSteps, items, PosOf(o))
                  = RepeatedNext(unfusedSteps, items, PosOf(o))
           /\ Len(unfusedSteps) = Len(built)

\* a pull returned a value from a pipeline in which two maps were fused, while
\* a pipeline of the same builder calls whose compose failed exists
C2_Witness ==
    /\ last.op = "next"
    /\ last.res = "value"
    /\ Len(objs[last.obj].m_steps) < Len(objs[last.obj].built)
    /\ \E o \in 1 .. Len(objs) :
           /\ Len(objs[o].m_steps) = Len(objs[o].built)
           /\ Len(objs[o].built) = Len(objs[last.obj].built)
           /\ \A k \in 1 .. Len(objs[o].built) :
                  /\ objs[o].built[k].function = objs[last.obj].built[k].function
                  /\ objs[o].built[k].kind = objs[last.obj].built[k].kind

\* no SrcErr item at or after position pos
SourceNeverFails(its, pos) == \A k \in pos .. Len(its) : its[k] # SrcErr

\* C3: over a source that does not fail and with callables that do not fail,
\* to_list returns the list of the values repeated pulls would have returned
\* from that point until exhaustion, in order, and leaves the source exhausted
C3_ToListIsRepeatedNext ==
    (/\ last.op = "to_list"
     /\ NonFailing(objs[last.obj].built)
     /\ SourceNeverFails(items, last.pre)) =>
        LET r == RepeatedNext(objs[last.obj].m_steps, items, last.pre)
        IN /\ last.res = "list"
           /\ last.list = r.vals
           /\ r.end = "exhausted"
           /\ PosOf(last.obj) = r.pos
           /\ \/ PosOf(last.obj) > Len(items)
              \/ items[PosOf(last.obj) - 1] = SrcStop
           /\ pyerr = "none"

\* to_list on a pipeline with a filter returned a non-empty list from which
\* an element was dropped
C3_Witness ==
    /\ last.op = "to_list"
    /\ NonFailing(objs[last.obj].built)
    /\ SourceNeverFails(items, last.pre)
    /\ last.list # <<>>
    /\ Len(last.list) < last.st.adv - 1
    /\ Len(objs[last.obj].m_steps) >= 2

\* C4: when a Map is added to a pipeline ending in Map and compose succeeds,
\* the new pipeline has as many steps as the tail, its last step is a Map
\* holding compose(new callable, tail's last callable), which behaves as
\* x -> new(last(x)), and the earlier steps are the tail's
C4_MapFusionOnSuccess ==
    (last.op = "extend" /\ last.composed = "ok") =>
        LET new == objs[last.obj].m_steps
            old == objs[last.tail].m_steps
            n == Len(old)
        IN /\ Len(new) = n
           /\ new[n].kind = node_kind_map
           /\ new[n].function = compose(last.function, old[n].function)
           /\ \A x \in Values \cup {Bad} :
                  call_function(new[n].function, x)
                      = IF call_function(old[n].function, x) = NULL THEN NULL
                        ELSE call_function(last.function,
                                           call_function(old[n].function, x))
           /\ \A k \in 1 .. n - 1 : new[k] = old[k]
           /\ objs[last.obj].m_iter = objs[last.tail].m_iter

\* g was fused onto f (or f onto g) behind an earlier step
C4_Witness ==
    /\ last.op = "extend"
    /\ last.composed = "ok"
    /\ Len(objs[last.tail].m_steps) = 2
    /\ objs[last.tail].m_steps[2].function # last.function

\* whether builder call k began a step of its own: the first call, a filter,
\* a call on a tail ending in a filter, or a map whose compose failed
StartsStep(built, k) ==
    \/ k = 1
    \/ built[k].kind = node_kind_filter
    \/ built[k - 1].kind = node_kind_filter
    \/ built[k].composed = "failed"

RECURSIVE Origins(_, _)
\* the builder calls among the first k that began a step, in order
Origins(built, k) ==
    IF k = 0 THEN <<>>
    ELSE IF StartsStep(built, k) THEN Append(Origins(built, k - 1), k)
    ELSE Origins(built, k - 1)

\* C5 as stated: no pipeline has two adjacent Map steps
C5_NoAdjacentMaps ==
    \A o \in 1 .. Len(objs) :
        \A i \in 1 .. Len(objs[o].m_steps) - 1 :
            ~ /\ objs[o].m_steps[i].kind = node_kind_map
              /\ objs[o].m_steps[i + 1].kind = node_kind_map

\* C5 as amended: the steps of a pipeline are, in order and kind, the builder
\* calls that began a step, so two adjacent Map steps exist only where the
\* compose call made when the later of the two was added failed
C5_AdjacentMapsOnlyAfterComposeFailure ==
    \A o \in 1 .. Len(objs) :
        LET steps == objs[o].m_steps
            built == objs[o].built
            org == Origins(built, Len(built))
        IN /\ Len(steps) = Len(org)
           /\ \A i \in 1 .. Len(steps) : steps[i].kind = built[org[i]].kind
           /\ \A i \in 1 .. Len(steps) - 1 :
                  (/\ steps[i].kind = node_kind_map
                   /\ steps[i + 1].kind = node_kind_map)
                      => built[org[i + 1]].composed = "failed"

\* a pipeline of three map calls in which the second compose failed and the
\* third succeeded: two adjacent Map steps
C5_Witness ==
    \E o \in 1 .. Len(objs) :
        /\ Len(objs[o].built) = 3
        /\ Len(objs[o].m_steps) = 2
        /\ objs[o].built[2].composed = "failed"
        /\ objs[o].built[3].composed = "ok"

\* C6: when a Map is added to a pipeline ending in Map and compose fails, the
\* builder call returns an iterator, the error indicator is clear, and the
\* new steps are the tail's followed by one Map with the new callable
C6_ComposeFailureAbsorbed ==
    (last.op = "extend" /\ last.composed = "failed") =>
        /\ last.res = "object"
        /\ pyerr = "none"
        /\ last.kind = node_kind_map
        /\ objs[last.obj].m_steps
               = Append(objs[last.tail].m_steps, node(last.function, node_kind_map))

\* compose failed when a map was added behind a filter and a map
C6_Witness ==
    /\ last.op = "extend"
    /\ last.composed = "failed"
    /\ Len(objs[last.tail].m_steps) = 2
    /\ Len(objs[last.obj].m_steps) = 3

\* C7: when the added step is a Filter or the tail ends in a Filter, compose
\* is not called and the new steps are the tail's followed by one step of the
\* requested kind and callable
C7_NoFusionAtFilters ==
    (/\ last.op = "extend"
     /\ \/ last.kind = node_kind_filter
        \/ objs[last.tail].m_steps[Len(objs[last.tail].m_steps)].kind
               = node_kind_filter) =>
        /\ last.composed = "no"
        /\ objs[last.obj].m_steps
               = Append(objs[last.tail].m_steps, node(last.function, last.kind))

\* a map was added to a tail ending in a filter, and a filter to a tail
\* ending in a map
C7_Witness ==
    /\ last.op = "extend"
    /\ last.kind = node_kind_filter
    /\ Len(objs[last.tail].m_steps) = 2
    /\ objs[last.tail].m_steps[1].kind = node_kind_filter
    /\ objs[last.tail].m_steps[2].kind = node_kind_map

RECURSIVE ValueBefore(_, _, _)
\* the value the steps before step i make of the source value v
ValueBefore(steps, i, v) ==
    IF i = 1 THEN v
    ELSE LET u == ValueBefore(steps, i - 1, v)
         IN IF steps[i - 1].kind = node_kind_map
            THEN call_function(steps[i - 1].function, u)
            ELSE u

\* C8: a builder call adds its step at the end, after the tail's steps, and
\* within a call the callables invoked on one source element are invoked in
\* increasing step index from the first step on, each on the value the
\* preceding steps produced; map(f, filter(p, src)) has steps
\* [Filter(p), Map(f)]
C8_ApplicationOrder ==
    /\ \A o \in 1 .. Len(objs) :
           LET steps == objs[o].m_steps
               built == objs[o].built
               n == Len(steps)
           IN /\ steps[1].function[1] = built[1].function[1]
              /\ steps[n].function[Len(steps[n].function)]
                     = built[Len(built)].function[1]
              /\ (/\ Len(built) = 2
                  /\ built[1] = call(<<"p">>, node_kind_filter, "no")
                  /\ built[2].function = <<"f">>
                  /\ built[2].kind = node_kind_map)
                     => steps = <<node(<<"p">>, node_kind_filter),
                                  node(<<"f">>, node_kind_map)>>
    /\ last.op = "extend" =>
           \A k \in 1 .. Len(objs[last.tail].m_steps) :
               /\ objs[last.obj].m_steps[k].kind = objs[last.tail].m_steps[k].kind
               /\ k < Len(objs[last.tail].m_steps)
                      => objs[last.obj].m_steps[k] = objs[last.tail].m_steps[k]
    /\ last.op \in {"next", "to_list"} =>
           LET calls == last.st.calls
               steps == objs[last.obj].m_steps
           IN \A k \in 1 .. Len(calls) :
                  /\ calls[k].at \in last.pre .. Len(items)
                  /\ calls[k].arg = ValueBefore(steps, calls[k].step, items[calls[k].at])
                  /\ calls[k].step
                         = IF k > 1 /\ calls[k - 1].at = calls[k].at
                           THEN calls[k - 1].step + 1
                           ELSE 1
                  /\ (k > 1 /\ calls[k - 1].at # calls[k].at)
                         => calls[k].at > calls[k - 1].at

\* a pull on [Filter(p), Map(f)] called p and then f on the element it
\* returned
C8_Witness ==
    /\ last.op = "next"
    /\ last.res = "value"
    /\ objs[last.obj].m_steps = <<node(<<"p">>, node_kind_filter),
                                  node(<<"f">>, node_kind_map)>>
    /\ Len(last.st.calls) >= 3

\* C9: for map(f, src), a pull that draws an element on which f fails returns
\* an error after advancing the source once; the element is released and
\* nothing is held or returned; a pull that draws an element on which f
\* succeeds returns f of it
C9_CallableErrorOnThePullThatHitsIt ==
    (/\ last.op = "next"
     /\ Len(objs[last.obj].built) = 1
     /\ objs[last.obj].built[1].kind = node_kind_map
     /\ last.pre <= Len(items)
     /\ items[last.pre] \in Values) =>
        LET y == Prim(objs[last.obj].built[1].function[1], items[last.pre])
            h == last.st.h
        IN /\ last.st.adv = 1
           /\ PosOf(last.obj) = last.pre + 1
           /\ h[1].val = items[last.pre]
           /\ h[1].rc = 0
           /\ IF y = NULL
              THEN /\ last.res = "error"
                   /\ pyerr = "callable"
                   /\ last.val = NULL
                   /\ Len(h) = 1
                   /\ Len(last.st.calls) = 1
              ELSE /\ last.res = "value"
                   /\ pyerr = "none"
                   /\ last.val = y
                   /\ Len(h) = 2
                   /\ h[2].rc = 1

\* the only iterator is map(boom, src); its second pull drew the second
\* element and failed on it
C9_Witness ==
    /\ last.op = "next"
    /\ Len(objs) = 1
    /\ objs[1].built[1].kind = node_kind_map
    /\ last.pre = 2
    /\ last.res = "error"
    /\ pyerr = "callable"
    /\ items[1] # SrcErr

\* C10 as stated: a pull on an iterator that has returned an error before
\* does no work and returns no element
C10_ErroredIsSticky ==
    (last.op = "next" /\ last.errored) =>
        /\ last.st.adv = 0
        /\ last.st.calls = <<>>
        /\ last.res # "value"

\* C10 as amended: the iterator keeps no error state; a pull on an iterator
\* that has returned an error before advances the source again, invokes
\* callables only on elements drawn by this pull, and with callables that do
\* not fail returns what the naive nested iterators return from the current
\* source position
C10_ErrorIsNotSticky ==
    (last.op = "next" /\ last.errored) =>
        /\ last.st.adv >= 1
        /\ PosOf(last.obj) = IF last.pre + last.st.adv > Len(items)
                             THEN Len(items) + 1 ELSE last.pre + last.st.adv
        /\ \A k \in 1 .. Len(last.st.calls) : last.st.calls[k].at >= last.pre
        /\ NonFailing(objs[last.obj].built) =>
               LET r == NaiveNext(objs[last.obj].built, Len(objs[last.obj].built),
                                  items, last.pre)
               IN last.res = r.res /\ last.val = r.val

\* a pull after an error returned an element
C10_Witness ==
    /\ last.op = "next"
    /\ last.errored
    /\ last.res = "value"
    /\ last.st.calls # <<>>

\* C11 as stated: a pull on an iterator that has returned exhausted before
\* returns exhausted again, does not advance the source and invokes no
\* callable
C11_ExhaustedIsSticky ==
    (last.op = "next" /\ last.exhausted) =>
        /\ last.res = "exhausted"
        /\ last.st.adv = 0
        /\ last.st.calls = <<>>

\* C11 as amended: the iterator keeps no exhausted state; a pull on an
\* iterator that has returned exhausted before advances the source again; it
\* returns exhausted again after one advance and without invoking a callable
\* when the source reports exhaustion again, and when the source yields an
\* element it is processed as on any pull: with callables that do not fail
\* the pull returns what the naive nested iterators return from the current
\* source position
C11_ExhaustedIsNotSticky ==
    (last.op = "next" /\ last.exhausted) =>
        LET nx == PyIter_Next(items, last.pre)
        IN /\ last.st.adv >= 1
           /\ (nx.val = NULL /\ nx.err = "none") =>
                  /\ last.res = "exhausted"
                  /\ last.st.adv = 1
                  /\ last.st.calls = <<>>
                  /\ pyerr = "none"
           /\ nx.val # NULL =>
                  /\ last.st.calls # <<>>
                  /\ last.st.calls[1].arg = nx.val
           /\ NonFailing(objs[last.obj].built) =>
                  LET r == NaiveNext(objs[last.obj].built,
                                     Len(objs[last.obj].built), items, last.pre)
                  IN last.res = r.res /\ last.val = r.val /\ PosOf(last.obj) = r.pos

\* a pull after a pull that returned exhausted returned an element
C11_Witness ==
    /\ last.op = "next"
    /\ last.exhausted
    /\ last.res = "value"
    /\ last.st.calls # <<>>

\* the calls of a call log made on the element drawn at source position e
CallsAt(calls, e) ==
    LET OnElement(c) == c.at = e
    IN SelectSeq(calls, OnElement)

\* C12 as stated: a pull that returns an element has advanced the source
\* exactly once and invoked each step's callable exactly once
C12_OneAdvancePerElement ==
    (last.op = "next" /\ last.res = "value") =>
        /\ last.st.adv = 1
        /\ Len(last.st.calls) = Len(objs[last.obj].m_steps)
        /\ \A i \in 1 .. Len(last.st.calls) : last.st.calls[i].step = i

\* C12 as amended: a pull that returns an element has advanced the source
\* once for the returned element and once for each element a Filter dropped
\* before it; each step's callable was invoked exactly once, in order, on the
\* returned element, and on a dropped element the steps up to the Filter that
\* dropped it exactly once each; without a Filter the source was advanced
\* exactly once
C12_OneAdvancePerElementDrawn ==
    (last.op = "next" /\ last.res = "value") =>
        LET steps == objs[last.obj].m_steps
            n == Len(steps)
            calls == last.st.calls
            end == PosOf(last.obj)
        IN /\ last.st.adv >= 1
           /\ last.st.adv = end - last.pre
           /\ \A k \in 1 .. Len(calls) : calls[k].at \in last.pre .. end - 1
           /\ \A e \in last.pre .. end - 1 :
                  LET ce == CallsAt(calls, e)
                  IN /\ items[e] \in Values
                     /\ Len(ce) \in 1 .. n
                     /\ \A i \in 1 .. Len(ce) : ce[i].step = i
                     /\ IF e = end - 1 THEN Len(ce) = n
                        ELSE steps[Len(ce)].kind = node_kind_filter
           /\ (\A i \in 1 .. n : steps[i].kind = node_kind_map) =>
                  last.st.adv = 1 /\ Len(calls) = n

\* a pull on a pipeline of a Map and a Filter returned an element after the
\* Filter had dropped one
C12_Witness ==
    /\ last.op = "next"
    /\ last.res = "value"
    /\ last.st.adv = 2
    /\ Len(objs[last.obj].m_steps) = 2
    /\ Len(last.st.calls) = 4

\* the values object b would yield on repeated pulls with its host iterator
\* at position pos
WouldYield(b, pos) == RepeatedNext(objs[b].m_steps, items, pos).vals

KindName(kind) == IF kind = node_kind_map THEN "map" ELSE "filter"

\* C15: a steps() call returns one (kind_name, callable) pair per step, in
\* application order, with kind_name "map" for a Map and "filter" for a
\* Filter; the kinds it reports are those of the builder calls that began a
\* step, whatever pulls were made since; a call right after another on the
\* same iterator returns an equal list; the call changes neither any steps
\* nor any source position
C15_StepsIsAPureObserver ==
    [][last'.op = "steps" =>
           LET self == objs[last'.obj]
               pairs == last'.pairs
               org == Origins(self.built, Len(self.built))
           IN /\ Len(pairs) = Len(self.m_steps)
              /\ \A k \in 1 .. Len(pairs) :
                     /\ pairs[k][1] = KindName(self.m_steps[k].kind)
                     /\ pairs[k][2] = self.m_steps[k].function
              /\ Len(pairs) = Len(org)
              /\ \A k \in 1 .. Len(pairs) :
                     pairs[k][1] = KindName(self.built[org[k]].kind)
              /\ (last.op = "steps" /\ last.obj = last'.obj) => pairs = last.pairs
              /\ objs' = objs
              /\ iters' = iters
              /\ items' = items
              /\ last'.res = "list"]_vars

\* steps() on a pipeline of a Map and a Filter after a pull has moved the
\* source
C15_Witness ==
    /\ last.op = "steps"
    /\ Len(last.pairs) = 2
    /\ last.pairs[1][1] = "map"
    /\ last.pairs[2][1] = "filter"
    /\ last.pre > 1

C16_ArgumentCountChecked ==
    [][last'.op \in {"new", "extend", "refused"} =>
           IF last'.nargs = 2
           THEN last'.op # "refused"
           ELSE /\ last'.op = "refused"
                /\ last'.res = "error"
                /\ pyerr' = "TypeError"
                /\ objs' = objs
                /\ iters' = iters
                /\ last'.composed = "no"
                /\ last'.obj = 0]_vars

\* filter was called with three arguments while a fused iterator ending in a
\* Map existed
C16_Witness ==
    /\ last.op = "refused"
    /\ last.nargs = 3
    /\ last.kind = node_kind_filter
    /\ pyerr = "TypeError"
    /\ Len(objs) = 1
    /\ objs[1].m_steps[1].kind = node_kind_map

\* what a pull leaves behind, for a run of interpreted_next
Left(st) ==
    [ret |-> Returned(st), res |-> Outcome(st), err |-> st.err, pos |-> st.pos,
     adv |-> st.adv, calls |-> st.calls, h |-> st.h]

\* what a pull leaves behind, for a run of the compiled function
LeftCompiled(fr) ==
    [ret |-> IF fr.ret # 0 THEN fr.h[fr.ret].val ELSE NULL,
     res |-> IF fr.ret # 0 THEN "value"
             ELSE IF fr.err # "none" THEN "error" ELSE "exhausted",
     err |-> fr.err, pos |-> fr.pos, adv |-> fr.adv, calls |-> fr.calls,
     h |-> fr.h]

ElevenMaps(o) ==
    /\ Len(objs[o].built) = 11
    /\ \A k \in 1 .. 11 : objs[o].built[k].kind = node_kind_map

\* C18 as stated: the first pull on an iterator built by 11 chained map
\* calls, over a source whose length hint (where it is asked for) is 10^8,
\* leaves m_next = compiled_next unless gccjit fails, and every later pull
\* runs the compiled function
C18_ElevenMapsCompile ==
    (/\ last.op = "next"
     /\ ElevenMaps(last.obj)
     /\ last.hint \in {NULL, 2 * compile_threshold_size}
     /\ last.compiled # "failed") =>
        /\ objs[last.obj].m_next = "compiled_next"
        /\ last.via \in {"first_next", "compiled_next"}
        /\ last.via = "first_next" => last.compiled = "ok"

\* C18 as amended: the first pull on an iterator built by 11 chained map
\* calls compiles only when the chain kept at least compile_threshold_steps
\* steps, that is when compose failed, and the length hint is 10^8: then a
\* successful compilation leaves m_next = compiled_next and the pull and all
\* later ones return what the compiled function returns, which is what
\* interpreted_next returns, while a failed compilation returns an error
\* without advancing the source and leaves m_next = first_next; when compose
\* succeeded the chain is one step and the first pull leaves
\* m_next = interpreted_next without asking for the hint
C18_ElevenUnfusedMapsCompile ==
    (last.op = "next" /\ ElevenMaps(last.obj)) =>
        LET self == objs[last.obj]
            ref == interpreted_next(self.m_steps, items, last.pre)
        IN /\ last.via = "first_next" =>
                  IF Len(self.m_steps) = 1
                  THEN /\ self.m_next = "interpreted_next"
                       /\ last.hint = NULL
                       /\ last.compiled = "no"
                       /\ last.st = ref
                  ELSE /\ Len(self.m_steps) = 11
                       /\ last.hint # NULL
                       /\ CASE last.hint < compile_threshold_size ->
                                 /\ self.m_next = "interpreted_next"
                                 /\ last.compiled = "no"
                                 /\ last.st = ref
                            [] last.compiled = "ok" ->
                                 /\ self.m_next = "compiled_next"
                                 /\ self.m_compiled_next = next_function(self.m_steps)
                                 /\ Left(last.st) = Left(ref)
                            [] OTHER ->
                                 /\ last.compiled = "failed"
                                 /\ self.m_next = "first_next"
                                 /\ self.m_compiled_next = next_function_default
                                 /\ last.res = "error"
                                 /\ pyerr = "ValueError"
                                 /\ last.st.adv = 0
                                 /\ PosOf(last.obj) = last.pre
           /\ last.via = "compiled_next" =>
                  /\ self.m_next = "compiled_next"
                  /\ self.m_compiled_next = next_function(self.m_steps)
                  /\ last.compiled = "no"
                  /\ Left(last.st) = Left(ref)
           /\ self.m_next = "compiled_next" =>
                  last.via \in {"first_next", "compiled_next"}

\* a pull through compiled_next on an iterator of 11 unfused Map steps
\* returned an element
C18_Witness ==
    /\ last.op = "next"
    /\ ElevenMaps(last.obj)
    /\ Len(objs[last.obj].m_steps) = 11
    /\ last.via = "compiled_next"
    /\ last.res = "value"
    /\ last.pre = 2

\* how many elements of a sequence of steps or builder calls have a kind
CountKind(seq, kind) == Cardinality({k \in 1 .. Len(seq) : seq[k].kind = kind})

\* C19: a pipeline has at most as many Map steps as map calls built it (as
\* many as those whose compose call did not succeed), exactly as many Filter
\* steps as filter calls, no more steps than builder calls, and two adjacent
\* Map steps only where the compose call of the builder call that added the
\* later one failed
C19_StepCountBound ==
    \A o \in 1 .. Len(objs) :
        LET m_steps == objs[o].m_steps
            built == objs[o].built
            org == Origins(built, Len(built))
            fusions == Cardinality({k \in 1 .. Len(built) : built[k].composed = "ok"})
        IN /\ CountKind(m_steps, node_kind_map) <= CountKind(built, node_kind_map)
           /\ CountKind(m_steps, node_kind_map)
                  = CountKind(built, node_kind_map) - fusions
           /\ CountKind(m_steps, node_kind_filter)
                  = CountKind(built, node_kind_filter)
           /\ Len(m_steps) <= Len(built)
           /\ Len(m_steps) = Len(built) - fusions
           /\ Len(org) = Len(m_steps)
           /\ \A i \in 1 .. Len(m_steps) - 1 :
                  (/\ m_steps[i].kind = node_kind_map
                   /\ m_steps[i + 1].kind = node_kind_map) =>
                      built[org[i + 1]].composed = "failed"

\* three builder calls gave two steps: two map calls were fused and a
\* filter call added its own step
C19_Witness ==
    \E o \in 1 .. Len(objs) :
        /\ Len(objs[o].built) = 3
        /\ Len(objs[o].m_steps) = 2
        /\ CountKind(objs[o].built, node_kind_map) = 2
        /\ CountKind(objs[o].m_steps, node_kind_map) = 1
        /\ CountKind(objs[o].m_steps, node_kind_filter) = 1

\* C20: every pipeline has at least one step, in every state from the
\* return of the builder call that made it on, and steps() reports at least
\* one pair for it
C20_AtLeastOneStep ==
    \A o \in 1 .. Len(objs) :
        /\ Len(objs[o].m_steps) >= 1
        /\ steps_list(objs[o].m_steps) # <<>>
        /\ Len(objs[o].m_steps) <= Len(objs[o].built)

\* an iterator pulled again after a pull at the end of its source returned
\* exhausted still has its step
C20_Witness ==
    /\ last.op = "next"
    /\ last.res = "exhausted"
    /\ last.exhausted
    /\ last.pre > Len(items)
    /\ Len(objs[last.obj].m_steps) = 1

\* the values a call obtained: one handle for each element drawn from the
\* source and one for each callable invocation that returned
Obtained(st) ==
    Cardinality({e \in 1 .. Len(items) : e >= last.pre /\ e < st.pos
                                          /\ items[e] \in Values})
        + Len(st.calls) - (IF st.err = "callable" THEN 1 ELSE 0)

\* every value a pull obtained has been released exactly once, except the
\* value the pull returned, which is held once
Conserved(st) ==
    /\ Len(st.h) = Obtained(st)
    /\ \A k \in 1 .. Len(st.h) :
           st.h[k].rc = IF k = st.element THEN 1 ELSE 0

\* C21: when a pull returns, with an element, exhaustion or any error, every
\* value it drew from the source and every value a callable returned to it
\* has been released exactly once or is the one value returned, held once;
\* at a Map step the element before the map has been released once
C21_ReferenceConservationInNext ==
    last.op = "next" =>
        /\ Conserved(last.st)
        /\ last.res = "value" <=> last.st.element # 0
        /\ \A k \in 1 .. Len(last.st.calls) :
               LET c == last.st.calls[k]
               IN (/\ objs[last.obj].m_steps[c.step].kind = node_kind_map
                   /\ ~(k = Len(last.st.calls) /\ last.st.err = "callable")) =>
                      \E j \in 1 .. Len(last.st.h) :
                          last.st.h[j].val = c.arg /\ last.st.h[j].rc = 0

\* a pull of the first variant on a single Map step returned the mapped
\* value
C21_Witness ==
    /\ last.op = "next"
    /\ last.via = "first variant"
    /\ last.res = "value"
    /\ Len(objs[last.obj].m_steps) = 1
    /\ objs[last.obj].m_steps[1].kind = node_kind_map
    /\ last.st.adv = 1

\* C22: when a callable invocation, a truthiness test or a source advance
\* fails during to_list, the call returns the error and no list, and the
\* partial list and every value the call obtained have been released
C22_ToListErrorReleasesAll ==
    (last.op = "to_list" /\ pyerr # "none") =>
        /\ last.res = "error"
        /\ last.st.outrc = 0
        /\ Len(last.st.h) = Obtained(last.st)
        /\ \A k \in 1 .. Len(last.st.h) : last.st.h[k].rc = 0

\* to_list had appended an element when the source advance failed
C22_Witness ==
    /\ last.op = "to_list"
    /\ pyerr = "source"
    /\ Len(last.st.out) = 1
    /\ last.st.adv = 2

\* C23: when to_list returns a list, each element of the list is referenced
\* exactly once, by the list, and every element a Filter dropped and every
\* intermediate value has been released exactly once
C23_ReferenceConservationInToList ==
    (last.op = "to_list" /\ last.res = "list") =>
        LET st == last.st
            InList(k) == \E j \in 1 .. Len(st.out) : st.out[j] = k
        IN /\ Len(st.h) = Obtained(st)
           /\ \A i, j \in 1 .. Len(st.out) : st.out[i] = st.out[j] => i = j
           /\ \A k \in 1 .. Len(st.h) :
                  st.h[k].rc = IF InList(k) THEN 1 ELSE 0

\* to_list on a pipeline with a Filter returned a list of one element after
\* the Filter had dropped another
C23_Witness ==
    /\ last.op = "to_list"
    /\ last.res = "list"
    /\ pyerr = "none"
    /\ Len(last.st.out) = 1
    /\ last.st.adv = 3
    /\ \E i \in 1 .. Len(objs[last.obj].m_steps) :
           objs[last.obj].m_steps[i].kind = node_kind_filter

\* the handle of the value the k-th invocation of a pull returned: the pull
\* obtained one value for each element drawn so far and one for each
\* invocation so far
ResultOf(pre, calls, k) == (calls[k].at - pre + 1) + k

\* in a pull from position pre with call log calls, handles h and returned
\* handle ret: the result of every Filter invocation has been released, and
\* when it is truthy the next step is invoked on the argument the Filter was
\* invoked on, or after the last step that argument is the value returned
FilterKeepsOriginal(steps, pre, calls, h, ret) ==
    \A k \in 1 .. Len(calls) :
        LET c == calls[k]
            r == ResultOf(pre, calls, k)
        IN (steps[c.step].kind = node_kind_filter /\ r <= Len(h)) =>
               /\ h[r].val = call_function(steps[c.step].function, c.arg)
               /\ h[r].rc = 0
               /\ PyObject_Not(h[r].val) = 0 =>
                      IF c.step < Len(steps)
                      THEN /\ k < Len(calls)
                           /\ calls[k + 1].step = c.step + 1
                           /\ calls[k + 1].at = c.at
                           /\ calls[k + 1].arg = c.arg
                      ELSE /\ k = Len(calls)
                           /\ ret \notin {0, r}
                           /\ h[ret].val = c.arg
                           /\ h[ret].rc = 1

\* C24: when the result of a Filter step's predicate is truthy, the value
\* handed to the next step, or returned when the Filter is the last step, is
\* the element as it was before the Filter and not the predicate's result,
\* and the predicate's result is released; in interpreted_next and in the
\* function jit::compile emits
C24_FilterKeepsOriginal ==
    last.op = "next" =>
        LET steps == objs[last.obj].m_steps
            fr == lifted_next(steps, items, last.pre)
        IN /\ FilterKeepsOriginal(steps, last.pre, last.st.calls, last.st.h,
                                  last.st.element)
           /\ FilterKeepsOriginal(steps, last.pre, fr.calls, fr.h, fr.ret)

\* a pull on [Map, Filter] returned the mapped value 2 for which the
\* predicate returned 1
C24_Witness ==
    /\ last.op = "next"
    /\ last.res = "value"
    /\ Len(objs[last.obj].m_steps) = 2
    /\ objs[last.obj].m_steps[1].kind = node_kind_map
    /\ objs[last.obj].m_steps[2].kind = node_kind_filter
    /\ last.val = 2
    /\ last.st.h[last.st.element].rc = 1

\* C25: when a Filter step rejects an element during a pull, no later step
\* is invoked on that element, the element is released and not returned, and
\* the same pull advances the source again: it invokes the first step on the
\* next element if there is one, and otherwise returns exhausted or the
\* source's error; a pull returns an element only if the last element it
\* drew passed every step
C25_FilterRejection ==
    last.op = "next" =>
        LET st == last.st
            calls == st.calls
            steps == objs[last.obj].m_steps
        IN /\ \A k \in 1 .. Len(calls) :
                  LET c == calls[k]
                      r == ResultOf(last.pre, calls, k)
                  IN (/\ steps[c.step].kind = node_kind_filter
                      /\ r <= Len(st.h)
                      /\ PyObject_Not(st.h[r].val) = 1) =>
                         /\ \A j \in k + 1 .. Len(calls) : calls[j].at > c.at
                         /\ \A j \in 1 .. r : st.h[j].rc = 0
                         /\ st.element = 0 \/ st.element > r
                         /\ st.adv >= c.at - last.pre + 2
                         /\ st.pos > c.at + 1 \/ st.pos > Len(items)
                         /\ IF c.at + 1 <= Len(items) /\ items[c.at + 1] \in Values
                            THEN /\ k < Len(calls)
                                 /\ calls[k + 1].step = 1
                                 /\ calls[k + 1].at = c.at + 1
                                 /\ calls[k + 1].arg = items[c.at + 1]
                            ELSE /\ k = Len(calls)
                                 /\ last.res # "value"
                                 /\ IF c.at + 1 <= Len(items) /\ items[c.at + 1] = SrcErr
                                    THEN last.res = "error" /\ pyerr = "source"
                                    ELSE last.res = "exhausted" /\ pyerr = "none"
           /\ last.res = "value" =>
                  /\ Len(CallsAt(calls, st.pos - 1)) = Len(steps)
                  /\ calls[Len(calls)].step = Len(steps)

\* a pull on [Filter, Map] dropped the first element at the Filter without
\* invoking the Map on it, drew the second and returned its mapped value
C25_Witness ==
    /\ last.op = "next"
    /\ last.res = "value"
    /\ last.pre = 1
    /\ last.st.adv = 2
    /\ Len(objs[last.obj].m_steps) = 2
    /\ objs[last.obj].m_steps[1].kind = node_kind_filter
    /\ objs[last.obj].m_steps[2].kind = node_kind_map
    /\ Len(last.st.calls) = 3
    /\ last.st.calls[2].at = 2

RECURSIVE Reached(_, _, _)
\* whether the source item v reaches step i: it is an element, every Map
\* before step i returned a value and every Filter before it kept the element
Reached(steps, i, v) ==
    IF i = 1 THEN v \in Values
    ELSE /\ Reached(steps, i - 1, v)
         /\ LET r == call_function(steps[i - 1].function,
                                   ValueBefore(steps, i - 1, v))
            IN /\ r # NULL
               /\ steps[i - 1].kind = node_kind_filter => PyObject_Not(r) = 0

\* C26: a pull or to_list call starts where the earlier calls left the
\* source, which never moves back, and invokes callables only on the
\* elements it draws itself; on each of them every step the element reaches
\* is invoked exactly once, in step order, and no other step is invoked: so
\* over any sequence of calls no step is invoked twice on one source element
C26_AtMostOnceStepPerElement ==
    [][/\ \A s \in 1 .. Len(iters) : iters'[s] >= iters[s]
       /\ last'.op \in {"next", "to_list"} =>
              LET st == last'.st
                  calls == st.calls
                  steps == objs[last'.obj].m_steps
                  it == objs[last'.obj].m_iter
              IN /\ last'.pre = iters[it]
                 /\ iters'[it] = st.pos
                 /\ \A e \in 1 .. Len(items) :
                        LET ce == CallsAt(calls, e)
                        IN IF e < last'.pre \/ e >= st.pos THEN ce = <<>>
                           ELSE /\ Len(ce) <= Len(steps)
                                /\ \A i \in 1 .. Len(ce) : ce[i].step = i
                                /\ \A i \in 1 .. Len(steps) :
                                       Reached(steps, i, items[e]) <=> i <= Len(ce)
                 /\ \A k \in 1 .. Len(calls) : calls[k].at \in 1 .. Len(items)]_vars

\* to_list on a pipeline of two steps invoked both steps on the second
\* element of the source after a pull had processed the first
C26_Witness ==
    /\ last.op = "to_list"
    /\ last.pre = 2
    /\ Len(objs[last.obj].m_steps) = 2
    /\ Len(last.st.calls) = 2
    /\ last.st.calls[1].at = 2
    /\ last.st.calls[2].at = 2

\* C27: within a pull the first failing source advance, callable invocation
\* or truthiness test is the last thing the pull does: the failing
\* invocation is the last of the call log and the source stays behind the
\* element it was made on, a failing advance is the last advance and no
\* callable is invoked after it, and the pull returns that error
C27_ErrorsSurfaceImmediately ==
    last.op = "next" =>
        LET st == last.st
            calls == st.calls
            steps == objs[last.obj].m_steps
            n == Len(calls)
            Raised(k) == call_function(steps[calls[k].step].function,
                                       calls[k].arg) = NULL
            NoTruth(k) ==
                /\ steps[calls[k].step].kind = node_kind_filter
                /\ ~Raised(k)
                /\ PyObject_Not(call_function(steps[calls[k].step].function,
                                              calls[k].arg)) < 0
        IN /\ \A k \in 1 .. n :
                  (Raised(k) \/ NoTruth(k)) =>
                      /\ k = n
                      /\ st.pos = calls[k].at + 1
                      /\ st.adv = calls[k].at - last.pre + 1
                      /\ last.res = "error"
                      /\ pyerr = IF Raised(k) THEN "callable" ELSE "truthiness"
           /\ \A e \in last.pre .. st.pos - 1 :
                  (e <= Len(items) /\ items[e] = SrcErr) =>
                      /\ e = st.pos - 1
                      /\ st.adv = e - last.pre + 1
                      /\ \A k \in 1 .. n : calls[k].at < e
                      /\ last.res = "error"
                      /\ pyerr = "source"
           /\ last.res = "error" =>
                  /\ last.val = NULL
                  /\ \/ n > 0 /\ (Raised(n) \/ NoTruth(n))
                     \/ items[st.pos - 1] = SrcErr

\* a pull on a pipeline of two steps returned the error of its first
\* step's callable on the second element it drew, without invoking the
\* second step on it
C27_Witness ==
    /\ last.op = "next"
    /\ last.res = "error"
    /\ pyerr = "callable"
    /\ Len(objs[last.obj].m_steps) = 2
    /\ last.st.calls[Len(last.st.calls)].step = 1
    /\ last.pre = 1
    /\ last.st.adv = 2

\* in a pull from position pre with call log calls, handles h, returned
\* handle ret and error err: for every Filter invocation that returned, the
\* result has been released once; on 0 the element goes on to the next step
\* or is returned; on 1 it is released, no later step is invoked on it and it
\* is not returned; on an error the pull ends there with every value released
FilterTriState(steps, pre, calls, h, ret, err) ==
    \A k \in 1 .. Len(calls) :
        LET c == calls[k]
            r == ResultOf(pre, calls, k)
            should_mask == PyObject_Not(h[r].val)
        IN (steps[c.step].kind = node_kind_filter /\ r <= Len(h)) =>
               /\ h[r].rc = 0
               /\ should_mask \in {0, 1, -1}
               /\ should_mask = 0 =>
                      IF c.step < Len(steps)
                      THEN k < Len(calls) /\ calls[k + 1].at = c.at
                                         /\ calls[k + 1].step = c.step + 1
                      ELSE k = Len(calls) /\ ret # 0 /\ h[ret].val = c.arg
                                         /\ err = "none"
               /\ should_mask = 1 =>
                      /\ \A j \in k + 1 .. Len(calls) : calls[j].at > c.at
                      /\ \A j \in 1 .. r : h[j].rc = 0
                      /\ ret = 0 \/ ret > r
               /\ should_mask = -1 =>
                      /\ k = Len(calls)
                      /\ ret = 0
                      /\ err = "truthiness"
                      /\ Len(h) = r
                      /\ \A j \in 1 .. Len(h) : h[j].rc = 0

\* C28: at a Filter step the result 0 of the boolean negation keeps the
\* element, 1 drops it, and an error makes the pull return an error after
\* releasing the predicate's result and the element; in all three cases the
\* predicate's result is released exactly once; in interpreted_next and in
\* the function jit::compile emits
C28_TruthinessTriState ==
    last.op = "next" =>
        LET steps == objs[last.obj].m_steps
            fr == lifted_next(steps, items, last.pre)
        IN /\ FilterTriState(steps, last.pre, last.st.calls, last.st.h,
                             last.st.element, last.st.err)
           /\ FilterTriState(steps, last.pre, fr.calls, fr.h, fr.ret, fr.err)
           /\ pyerr = "truthiness" => last.res = "error"

\* a pull on [Map, Filter] returned the error of the truth test of the
\* predicate's result, after the Filter had dropped an element
C28_Witness ==
    /\ last.op = "next"
    /\ last.res = "error"
    /\ pyerr = "truthiness"
    /\ Len(objs[last.obj].m_steps) = 2
    /\ objs[last.obj].m_steps[2].kind = node_kind_filter
    /\ last.st.adv = 2
    /\ Len(last.st.h) = 6

\* C29: a pull through first_next on a pipeline of fewer than
\* compile_threshold_steps steps, or over a source whose length hint is below
\* compile_threshold_size, sets m_next to interpreted_next, attempts no
\* compilation and returns what interpreted_next returns, and every later
\* pull goes through interpreted_next; a compilation is attempted exactly
\* when the pipeline has at least compile_threshold_steps steps and the hint
\* is at least compile_threshold_size, both values included, and only by
\* first_next
C29_DispatcherThreshold ==
    last.op = "next" =>
        LET self == objs[last.obj]
            below == \/ Len(self.m_steps) < 10
                     \/ last.hint < 50000000
        IN /\ last.via = "first_next" =>
                  IF below
                  THEN /\ self.m_next = "interpreted_next"
                       /\ last.compiled = "no"
                       /\ self.m_compiled_next = next_function_default
                       /\ last.st = interpreted_next(self.m_steps, items, last.pre)
                  ELSE /\ last.compiled \in {"ok", "failed"}
                       /\ self.m_next # "interpreted_next"
           /\ last.via = "first_next" =>
                  (last.hint = NULL <=> Len(self.m_steps) < 10)
           /\ last.compiled # "no" =>
                  /\ last.via = "first_next"
                  /\ Len(self.m_steps) >= 10
                  /\ last.hint >= 50000000
           /\ last.via = "interpreted_next" =>
                  /\ self.m_next = "interpreted_next"
                  /\ self.m_compiled_next = next_function_default
                  /\ last.st = interpreted_next(self.m_steps, items, last.pre)

\* the first pull on a pipeline of exactly ten steps over a source whose
\* length hint is exactly 50,000,000 compiled the pipeline
C29_Witness ==
    /\ last.op = "next"
    /\ last.via = "first_next"
    /\ Len(objs[last.obj].m_steps) = 10
    /\ last.hint = 50000000
    /\ last.compiled = "ok"
    /\ objs[last.obj].m_next = "compiled_next"

\* C30 as stated: a new iterator has m_next = first_next, after a pull
\* m_next is interpreted_next or compiled_next, and a pull that follows a
\* pull on the iterator does not run first_next and leaves m_next as it was
C30_DispatcherDecidesOnce ==
    [][/\ last'.op \in {"new", "extend"} =>
              objs'[last'.obj].m_next = "first_next"
       /\ last'.op = "next" =>
              objs'[last'.obj].m_next \in {"interpreted_next", "compiled_next"}
       /\ (last.op = "next" /\ last'.op = "next" /\ last'.obj = last.obj) =>
              /\ last'.via # "first_next"
              /\ objs'[last'.obj].m_next = objs[last.obj].m_next]_vars

\* C30 as amended: a new iterator has m_next = first_next; a pull goes
\* through the function m_next holds; first_next leaves m_next =
\* interpreted_next or compiled_next unless the compilation fails, and then
\* m_next stays first_next, nothing is drawn from the source, and the next
\* pull runs first_next again; a pull through interpreted_next or
\* compiled_next leaves m_next as it is, so once m_next is one of the two it
\* never changes again
C30_DecidesOnceUnlessCompilationFails ==
    [][/\ last'.op \in {"new", "extend"} =>
              /\ objs'[last'.obj].m_next = "first_next"
              /\ objs'[last'.obj].m_compiled_next = next_function_default
       /\ last'.op = "next" =>
              LET o == last'.obj
              IN /\ last'.via = objs[o].m_next
                 /\ IF last'.via # "first_next"
                    THEN /\ objs'[o].m_next = objs[o].m_next
                         /\ objs'[o].m_compiled_next = objs[o].m_compiled_next
                         /\ last'.compiled = "no"
                    ELSE IF last'.compiled = "failed"
                    THEN /\ objs'[o] = objs[o]
                         /\ last'.res = "error"
                         /\ pyerr' = "ValueError"
                         /\ iters' = iters
                    ELSE objs'[o].m_next =
                             IF last'.compiled = "ok" THEN "compiled_next"
                             ELSE "interpreted_next"
                 /\ (last.op = "next" /\ last.obj = o) =>
                        (last'.via = "first_next" <=> last.compiled = "failed")]_vars

\* a pull ran first_next again, and compiled the pipeline, after the
\* compilation had failed in the pull before it
C30_Witness ==
    /\ last.op = "next"
    /\ last.via = "first_next"
    /\ last.errored
    /\ last.compiled = "ok"
    /\ last.res = "value"
    /\ objs[last.obj].m_next = "compiled_next"

\* C31: in every state an iterator whose m_next is compiled_next holds the
\* function compiled from its steps, and an iterator whose m_next is not
\* compiled_next holds none; a pull whose compilation succeeded leaves
\* m_next = compiled_next with that function cached and returns what the
\* function returns; a pull whose compilation failed returns an error with
\* ValueError set and installs nothing
C31_CompilationOutcome ==
    /\ \A o \in 1 .. Len(objs) :
           IF objs[o].m_next = "compiled_next"
           THEN /\ objs[o].m_compiled_next.m_gcc_jit_result # <<>>
                /\ objs[o].m_compiled_next = next_function(objs[o].m_steps)
           ELSE objs[o].m_compiled_next = next_function_default
    /\ (last.op = "next" /\ last.compiled = "ok") =>
           /\ objs[last.obj].m_next = "compiled_next"
           /\ objs[last.obj].m_compiled_next = next_function(objs[last.obj].m_steps)
           /\ last.st = FrameAsLocals(lifted_next(objs[last.obj].m_steps, items,
                                                  last.pre))
    /\ (last.op = "next" /\ last.compiled = "failed") =>
           /\ last.res = "error"
           /\ last.val = NULL
           /\ pyerr = "ValueError"
           /\ objs[last.obj].m_next # "compiled_next"
           /\ objs[last.obj].m_compiled_next = next_function_default

\* the pull that compiled a pipeline of eleven steps returned an element
\* from the compiled function
C31_Witness ==
    /\ last.op = "next"
    /\ last.compiled = "ok"
    /\ last.res = "value"
    /\ Len(objs[last.obj].m_steps) = 11
    /\ Len(objs[last.obj].m_compiled_next.m_functions) = 11

\* a to_list call that returned NULL because a step failed on the k-th
\* element it drew: k advances, the source left just after that element,
\* the last call is the failing one on that element, the list released
\* together with the reference it held on every appended value
ToListFailedAt ==
    LET st == last.st
        k == st.pos - last.pre
    IN /\ st.err \in {"callable", "truthiness"}
       /\ pyerr = st.err
       /\ last.val = NULL
       /\ k >= 1
       /\ st.adv = k
       /\ st.pos = last.pre + k
       /\ iters[objs[last.obj].m_iter] = st.pos
       /\ st.calls # <<>>
       /\ st.calls[Len(st.calls)].at = st.pos - 1
       /\ \A c \in 1 .. Len(st.calls) :
              st.calls[c].at \in last.pre .. st.pos - 1
       /\ st.outrc = 0
       /\ Len(st.out) <= k - 1
       /\ \A j \in 1 .. Len(st.out) : st.h[st.out[j]].rc = 1

\* C37: a to_list call that returns an error raised by a step on the k-th
\* element it drew has advanced the source exactly k times and released the
\* list with the values of the elements before; no source position ever
\* moves back, and the next pull or to_list on that source starts after the
\* failing element and calls steps only on elements after it
C37_FailedToListConsumes ==
    [][/\ \A i \in DOMAIN iters : iters'[i] >= iters[i]
       /\ (last'.op = "to_list" /\ last'.res = "error") =>
              ToListFailedAt'
       /\ (/\ last.op = "to_list"
           /\ last.res = "error"
           /\ last'.op \in {"next", "to_list"}
           /\ objs[last'.obj].m_iter = objs[last.obj].m_iter) =>
              /\ last'.pre = last.st.pos
              /\ \A c \in 1 .. Len(last'.st.calls) :
                     last'.st.calls[c].at >= last.st.pos
              /\ last'.st.pos >= last.st.pos]_vars

\* a to_list call failed on the second element it drew after appending the
\* value of the first
C37_Witness ==
    /\ last.op = "to_list"
    /\ last.res = "error"
    /\ last.st.adv = 2
    /\ Len(last.st.out) = 1
    /\ iters[objs[last.obj].m_iter] = last.pre + 2

\* the items a source at position pos has not yet given
Remaining(pos) == IF pos > Len(items) THEN 0 ELSE Len(items) - pos + 1

\* C38: every pull and every to_list call over the finite source returns: a
\* pull with an element, exhausted or an error, a to_list call with a list
\* or an error; the call has advanced the source at most once per remaining
\* item and once more, and has called at most every step once per advance
C38_CallsReturn ==
    last.op \in {"next", "to_list"} =>
        LET st == last.st
        IN /\ last.op = "next" => last.res \in {"value", "exhausted", "error"}
           /\ last.op = "to_list" => last.res \in {"list", "error"}
           /\ st.adv >= 1
           /\ st.adv <= Remaining(last.pre) + 1
           /\ st.pos <= Len(items) + 1
           /\ Len(st.calls) <= st.adv * Len(objs[last.obj].m_steps)
           /\ (st.adv = Remaining(last.pre) + 1) =>
                  /\ st.pos = Len(items) + 1
                  /\ last.res \in {"exhausted", "list"}

\* a pull on a source with two items left, both dropped, advanced three
\* times and returned exhausted
C38_Witness ==
    /\ last.op = "next"
    /\ Remaining(last.pre) = 2
    /\ last.st.adv = 3
    /\ last.res = "exhausted"
    /\ Len(last.st.calls) >= 2

\* the live nodes that store callable c
NodesStoring(c) == {s \in DOMAIN nodes : nodes[s].function = c}

\* C36: after any sequence of the special members of node and of the
\* function setter, the references held on each callable are as many as the
\* live nodes that store it
C36_NodeReferenceDiscipline ==
    \A c \in DOMAIN heap.fn \cup NodeFns :
        Held(heap.fn, c) = Cardinality(NodesStoring(c))

\* a copy assignment has overwritten the callable of a node: a reference is
\* still held on the overwritten callable, which no live node stores
C36_Witness ==
    /\ last.op = "operator= copy"
    /\ last.function # <<>>
    /\ NodesStoring(last.function) = {}
    /\ Held(heap.fn, last.function) = 1

\* the live next_function objects that own result r
OwnersOf(r) == {s \in DOMAIN fns : fns[s].m_gcc_jit_result = r}

RECURSIVE Occurrences(_, _)
\* how often c occurs in the sequence obs
Occurrences(obs, c) ==
    IF obs = <<>> THEN 0
    ELSE (IF Head(obs) = c THEN 1 ELSE 0) + Occurrences(Tail(obs), c)

RECURSIVE PinnedBy(_, _)
\* the pins on callable c in the next_function objects of the set ss that
\* own a result
PinnedBy(ss, c) ==
    IF ss = {} THEN 0
    ELSE LET s == CHOOSE x \in ss : TRUE
         IN (IF fns[s].m_gcc_jit_result = <<>> THEN 0
             ELSE Occurrences(fns[s].m_functions, c))
            + PinnedBy(ss \ {s}, c)

\* C39: after any sequence of constructions, moves, move assignments and
\* destructions of next_function objects, every native code result is owned
\* by at most one object and is released when and only when no object owns
\* it any more, and the references held on each callable are the pins of
\* the objects that own a result: each is released exactly once
C39_SingleOwnership ==
    /\ \A r \in DOMAIN heap.res :
           /\ Cardinality(OwnersOf(r)) <= 1
           /\ Held(heap.res, r) = Cardinality(OwnersOf(r))
    /\ \A c \in DOMAIN heap.fn : Held(heap.fn, c) = PinnedBy(DOMAIN fns, c)

\* a move assignment has overwritten a next_function that owned a result:
\* the result is not released and no object owns it
C39_Witness ==
    /\ last.op = "next_function operator="
    /\ last.obj # last.tail
    /\ last.pairs # <<>>
    /\ OwnersOf(last.pairs) = {}
    /\ Held(heap.res, last.pairs) = 1

\* the pins of a next_function on callable c: none without a result
Pins(fn, c) ==
    IF fn.m_gcc_jit_result = <<>> THEN 0 ELSE Occurrences(fn.m_functions, c)

\* every callable a count is kept for, before or after a step
Callables == DOMAIN heap.fn \cup DOMAIN heap'.fn

\* C32: a pull that compiles leaves in m_compiled_next a callable vector of
\* the length of m_steps that holds, index by index, the callables of the
\* steps, and has taken one reference on each of them; the steps, the
\* source handle and the references held on the source are as before; and
\* as long as an iterator holds a compiled function, the references held on
\* each callable cover its nodes and its pins
C32_CompiledNextPins ==
    [][/\ (last'.op = "next" /\ last'.compiled = "ok") =>
              LET self == objs[1]
                  cn == objs'[1].m_compiled_next
              IN /\ cn.m_gcc_jit_result # <<>>
                 /\ Len(cn.m_functions) = Len(self.m_steps)
                 /\ \A i \in 1 .. Len(self.m_steps) :
                        cn.m_functions[i] = self.m_steps[i].function
                 /\ \A c \in Callables :
                        Held(heap'.fn, c) =
                            Held(heap.fn, c)
                            + Occurrences(m_functions(self.m_steps), c)
                 /\ objs'[1].m_steps = self.m_steps
                 /\ objs'[1].m_iter = self.m_iter
                 /\ heap'.it = heap.it
       /\ \A o \in 1 .. Len(objs') :
              \A c \in Callables :
                  Held(heap'.fn, c) >=
                      Occurrences(m_functions(objs'[o].m_steps), c)
                      + Pins(objs'[o].m_compiled_next, c)]_vars

\* a pull compiled a pipeline of ten steps of alternating kinds: five
\* references are pinned on f and five on p besides those of the nodes
C32_Witness ==
    /\ last.op = "next"
    /\ last.compiled = "ok"
    /\ Len(objs) = 1
    /\ Len(objs[1].m_steps) = 10
    /\ Len(objs[1].m_compiled_next.m_functions) = 10
    /\ Held(heap.fn, <<"f">>) = 10
    /\ Held(heap.fn, <<"p">>) = 10

\* C33: when the iterator is deallocated the reference on the source is
\* released once, the reference of every step on its callable is released
\* once, and, if the iterator had compiled, the native code result and every
\* pinned reference of m_compiled_next are released once
C33_DeallocateReleasesAll ==
    [][last'.op = "deallocate" =>
          LET self == objs[1]
              cn == self.m_compiled_next
          IN /\ Held(heap'.it, self.m_iter) = Held(heap.it, self.m_iter) - 1
             /\ \A c \in Callables :
                    Held(heap'.fn, c) =
                        Held(heap.fn, c)
                        - Occurrences(m_functions(self.m_steps), c)
                        - Pins(cn, c)
             /\ cn.m_gcc_jit_result # <<>> =>
                    Held(heap'.res, cn.m_gcc_jit_result) =
                        Held(heap.res, cn.m_gcc_jit_result) - 1]_vars

\* an iterator that had compiled has been deallocated: its source and its
\* nodes are released, the native code result is still owned and references
\* are still held on callables
C33_Witness ==
    /\ last.op = "deallocate"
    /\ last.via = "compiled_next"
    /\ objs = <<>>
    /\ \A i \in DOMAIN heap.it : Held(heap.it, i) = 0
    /\ \E r \in DOMAIN heap.res : Held(heap.res, r) = 1
    /\ \E c \in DOMAIN heap.fn : Held(heap.fn, c) > 0

\* C34: a builder call on an iterable whose PyObject_GetIter fails returns
\* that error, creates no object and no host iterator and takes no
\* reference; one that succeeds creates an iterator of exactly one step, the
\* given callable with the given kind, that holds exactly one reference on
\* the new host iterator and one on the callable
C34_FreshConstruction ==
    [][/\ (last'.op = "new" /\ last'.res = "error") =>
              /\ pyerr' = "not iterable"
              /\ objs' = objs
              /\ iters' = iters
              /\ heap' = heap
       /\ (last'.op = "new" /\ last'.res = "object") =>
              LET self == objs'[Len(objs')]
              IN /\ Len(objs') = Len(objs) + 1
                 /\ self.m_steps = <<node(last'.function, last'.kind)>>
                 /\ self.m_iter \notin DOMAIN iters
                 /\ self.m_iter \in DOMAIN iters'
                 /\ Held(heap'.it, self.m_iter) = 1
                 /\ \A i \in DOMAIN heap.it : Held(heap'.it, i) = Held(heap.it, i)
                 /\ \A c \in Callables :
                        Held(heap'.fn, c) =
                            Held(heap.fn, c)
                            + (IF c = last'.function THEN 1 ELSE 0)
                 /\ heap'.res = heap.res
                 /\ pyerr' = "none"]_vars

\* a builder call on an object that is not iterable has returned the error:
\* there is no iterator object, no host iterator and no reference held
C34_Witness ==
    /\ last.op = "new"
    /\ last.res = "error"
    /\ pyerr = "not iterable"
    /\ objs = <<>>
    /\ iters = <<>>
    /\ heap = NoRefs

RECURSIVE ValueOf(_, _)
\* what the callable returns for x, a callable that pulls returning its
\* argument
ValueOf(function, x) ==
    IF function = <<>> THEN x
    ELSE IF Head(function) \in Again THEN ValueOf(Tail(function), x)
    ELSE LET r == Prim(Head(function), x)
         IN IF r = NULL THEN NULL ELSE ValueOf(Tail(function), r)

RECURSIVE ElementAt(_, _, _)
\* the in-flight element at step j of the pull-one semantics for drawn value v
ElementAt(m_steps, j, v) ==
    IF j = 1 THEN v
    ELSE LET before == ElementAt(m_steps, j - 1, v)
         IN IF m_steps[j - 1].kind = node_kind_map
            THEN ValueOf(m_steps[j - 1].function, before)
            ELSE before

\* the step calls of a log made on the element iterator o drew at position at
CallsOn(log, o, at) == SelectSeq(log, LAMBDA e : e.o = o /\ e.at = at)

\* the step calls of a log made by the outermost pull
OuterCalls(log) == SelectSeq(log, LAMBDA e : e.d = 0)

\* C35: in a pull whose callables pull from fused iterators, every element
\* drawn, by the outer pull or by a nested one, goes through the steps of its
\* iterator in order from the first, each step called by the pull that drew
\* it on the value the steps before give for it; a pull that returns an
\* element returns what all its steps give for the element it drew last; no
\* iterator object is changed and no source position moves back
C35_Reentrancy ==
    [][(last'.op = "next" /\ last'.via = "reentrant") =>
          LET log == last'.pairs
              self == objs[last'.obj]
          IN /\ objs' = objs
             /\ \A i \in DOMAIN iters : iters'[i] >= iters[i]
             /\ \A k \in 1 .. Len(log) :
                    LET on == CallsOn(log, log[k].o, log[k].at)
                    IN \A j \in 1 .. Len(on) :
                           /\ on[j].step = j
                           /\ on[j].d = log[k].d
                           /\ on[j].arg = ElementAt(objs[log[k].o].m_steps, j,
                                                    items[log[k].at])
             /\ last'.res = "value" =>
                    LET outer == OuterCalls(log)
                        drawn == outer[Len(outer)]
                    IN /\ drawn.o = last'.obj
                       /\ Len(CallsOn(log, drawn.o, drawn.at)) = Len(self.m_steps)
                       /\ last'.val = ElementAt(self.m_steps, Len(self.m_steps) + 1,
                                                items[drawn.at])]_vars

\* a pull on an iterator of two steps returned an element after its first
\* callable had pulled from the same iterator: the outer pull called its
\* second step after the calls of the nested pull
C35_Witness ==
    /\ last.op = "next"
    /\ last.via = "reentrant"
    /\ last.res = "value"
    /\ Len(objs[last.obj].m_steps) = 2
    /\ \E k1 \in 1 .. Len(last.pairs), k2 \in 1 .. Len(last.pairs) :
           /\ k1 < k2
           /\ last.pairs[k1].d = 1
           /\ last.pairs[k1].o = last.obj
           /\ last.pairs[k2].d = 0
           /\ last.pairs[k2].step = 2

====
